---- MODULE Spec2Model ----
(***************************************************************************)
(* Streaming utterance accumulation in the speechmatics-academy examples.  *)
(*                                                                         *)
(* Seven pieces of the repository are modelled, one of which runs in a     *)
(* behaviour (the variable prog, fixed by the initial predicate):          *)
(*   "session"  TranscriptionSession of the medical assistant              *)
(*              (use-cases/06-medical-assistant/backend/services/          *)
(*              transcription.py)                                          *)
(*   "turns"    the turn-detection example (basics/07-turn-detection)      *)
(*   "dialer"   the outbound dialer's turn accumulation                    *)
(*              (integrations/twilio/01-outbound-dialer); its response     *)
(*              tasks under CallSpec, its speak() under SpeakSpec          *)
(*   "resolver" TranscriptionSession._get_dominant_speaker applied to one  *)
(*              list of recognition results                                *)
(*   "manager"  TranscriptionManager of the medical assistant and its      *)
(*              debounced extraction (use-cases/06-medical-assistant/      *)
(*              backend/main.py), under ManagerSpec, and under the         *)
(*              client's pause, resume, reset and audio under ControlSpec  *)
(*   "socket"   the websocket endpoint of the medical assistant, as a      *)
(*              client drives it, under SocketSpec                         *)
(*   "speakers" the speakers file of the LiveKit voice assistant           *)
(*              (integrations/livekit/01-simple-voice-assistant), under    *)
(*              SpeakersSpec                                               *)
(*                                                                         *)
(* A text is a sequence of one-character strings; " " is the whitespace    *)
(* character.  The upstream recogniser stamps the k-th transcript message  *)
(* with start_time = k-1 and end_time = k (the variable clock).            *)
(***************************************************************************)
EXTENDS Integers, Sequences, FiniteSets, TLC

\* ---------------------------------------------------------------- bounds
\* final-transcript (or segment) messages the recogniser delivers in a run
MaxFrags == 2
\* recognition results carried by one final-transcript message
MaxWords == 2
\* recognition results handed to the resolver when it runs alone
MaxResults == 4
\* segments carried by one ADD_SEGMENT message of the dialer
MaxSegs == 2

\* ---------------------------------------------------------------- inputs
Labels == {"S1", "S2"}

\* the value of alternatives[0]["speaker"] when the key is missing
NoKey == "<no speaker key>"

\* transcripts the recogniser sends: empty, whitespace only, clean, and with
\* trailing whitespace (the recogniser's usual form)
Transcripts == { <<>>, <<" ">>, <<"a">>, <<"b", " ">> }

\* segment texts the voice-agent client sends to the dialer
SegmentSamples == { <<>>, <<" ">>, <<"b", " ">> }

\* one entry of a message's "results" list
ResultKinds ==
    { [type |-> "word", alternatives |-> <<[speaker |-> "S1"]>>],
      [type |-> "word", alternatives |-> <<[speaker |-> "S2"]>>],
      [type |-> "word", alternatives |-> <<[speaker |-> NoKey]>>],
      [type |-> "word", alternatives |-> <<>>],
      [type |-> "punctuation", alternatives |-> <<[speaker |-> "S1"]>>] }

SeqsUpTo(S, n) == UNION { [1..k -> S] : k \in 0..n }

\* the words among them, labelled or not: the results of the final
\* transcripts the session is run on (every kind is handed to the resolver
\* when it runs alone)
WordKinds == { k \in ResultKinds : k.type = "word" /\ k.alternatives # <<>> }

\* ---------------------------------------------------------------- strings
RECURSIVE lstrip(_)
lstrip(s) == IF s # <<>> /\ Head(s) = " " THEN lstrip(Tail(s)) ELSE s

RECURSIVE rstrip(_)
rstrip(s) ==
    IF s # <<>> /\ s[Len(s)] = " " THEN rstrip(SubSeq(s, 1, Len(s) - 1)) ELSE s

\* str.strip()
strip(s) == rstrip(lstrip(s))

\* " ".join(texts)
RECURSIVE join(_)
join(texts) ==
    IF texts = <<>> THEN <<>>
    ELSE IF Len(texts) = 1 THEN texts[1]
    ELSE texts[1] \o <<" ">> \o join(Tail(texts))

\* ---------------------------------------------------------------- Counter
\* the keys of Counter(items), in insertion (first occurrence) order
CounterKeys(items) ==
    LET keys[i \in 0..Len(items)] ==
            IF i = 0 THEN <<>>
            ELSE IF \E j \in 1..Len(keys[i-1]) : keys[i-1][j] = items[i]
                 THEN keys[i-1]
                 ELSE Append(keys[i-1], items[i])
    IN keys[Len(items)]

CounterCount(items, k) == Cardinality({ i \in 1..Len(items) : items[i] = k })

\* a plausible slip: ties go to the key seen last
most_common_last(items) ==
    LET keys == CounterKeys(items)
        best[i \in 1..Len(keys)] ==
            IF i = 1 THEN keys[1]
            ELSE IF CounterCount(items, keys[i]) >= CounterCount(items, best[i-1])
                 THEN keys[i] ELSE best[i-1]
    IN best[Len(keys)]

\* Counter(items).most_common(1)[0][0] for a non-empty list: most_common(1)
\* is heapq.nlargest(1, items(), key=count), which is max(): the first key,
\* in insertion order, whose count is not exceeded
most_common_1(items) ==
    LET keys == CounterKeys(items)
        best[i \in 1..Len(keys)] ==
            IF i = 1 THEN keys[1]
            ELSE IF CounterCount(items, keys[i]) > CounterCount(items, best[i-1])
                 THEN keys[i] ELSE best[i-1]
    IN best[Len(keys)]

\* ---------------------------------------------------------------- resolver
\* a plausible slip: the result type is not looked at
RECURSIVE CollectSpeakersAnyType(_)
CollectSpeakersAnyType(results) ==
    IF results = <<>> THEN <<>>
    ELSE LET alts == Head(results).alternatives
         IN IF alts # <<>> /\ alts[1].speaker # NoKey
            THEN <<alts[1].speaker>> \o CollectSpeakersAnyType(Tail(results))
            ELSE CollectSpeakersAnyType(Tail(results))

\* the list `speakers` built by the loop of _get_dominant_speaker
RECURSIVE CollectSpeakers(_)
CollectSpeakers(results) ==
    IF results = <<>> THEN <<>>
    ELSE LET result == Head(results)
             alts == result.alternatives
         IN IF result.type # "word" THEN CollectSpeakers(Tail(results))
            ELSE IF alts # <<>> /\ alts[1].speaker # NoKey
                 THEN <<alts[1].speaker>> \o CollectSpeakers(Tail(results))
                 ELSE CollectSpeakers(Tail(results))

\* a plausible slip: a sentinel that on_final's test against "UNK" misses
_get_dominant_speaker_unknown(results) ==
    LET speakers == CollectSpeakers(results)
    IN IF speakers = <<>> THEN "UNKNOWN" ELSE most_common_1(speakers)

\* TranscriptionSession._get_dominant_speaker(results)
_get_dominant_speaker(results) ==
    LET speakers == CollectSpeakers(results)
    IN IF speakers = <<>> THEN "UNK" ELSE most_common_1(speakers)

\* ---------------------------------------------------------------- state
VARIABLES
    prog,                   \* which of the pieces runs
    clock,                  \* final-transcript messages delivered so far
    \* TranscriptionSession
    session_pc,             \* "constructed", "started" (start() returned), "stopped"
    _running,
    _client,                \* TRUE while self._client is an open AsyncClient
    _utterance_texts,
    _utterance_speakers,
    _utterance_start,
    _utterance_end,
    on_final_tasks,         \* arguments of asyncio.create_task(self.on_final(...))
    on_error_calls,         \* number of awaits of self.on_error(...)
    on_partial_tasks,       \* arguments of asyncio.create_task(self.on_partial(...))
    \* turn-detection example
    current_utterance,
    utterance_start_time,   \* <<>> is None, <<t>> a time
    utterances,
    partial_prints,         \* transcripts handle_partial printed as live preview
    \* outbound dialer
    current_turn_segments,
    response_tasks,         \* arguments of create_task(generate_response(...))
    response_pc,            \* where each of these tasks is: "created", "create"
                            \* (awaiting the LLM), "speak", "done"
    conversation_history,
    is_connected,
    \* one call of the dialer's speak()
    speak_pc,               \* "idle", "stream" (awaiting the next TTS chunk),
                            \* "send" (awaiting send_json), "sleep", "done"
    tts_chunks,             \* the chunks audio_stream produced so far
    pcm_buffer,
    media_sent,             \* payloads of the media events sent to Twilio
    \* resolver alone
    resolver_results,
    resolver_out,           \* <<>> before the call, <<label>> after
    \* history of the event stream, kept for the properties
    turn,                   \* accepted fragments since the last end of turn
    turns,                  \* the texts of each completed turn, in order
    last_turn,              \* the turn completed last, in full
    last_event,             \* the kind of the event handled last
    \* TranscriptionManager
    manager_pc,             \* "recording", or the await stop() is suspended at
    emitted,                \* utterances the session handed over so far
    on_final_transcript_tasks,  \* on_final_transcript calls not yet returned
    transcript_buffer,
    _pending_extraction,
    _pending_suggestions,
    _extraction_task,       \* "None", or the state of the task last created
    _suggestions_task,
    sleep_left,             \* time units left of _debounced_extraction's sleep
    extractions_in_flight,  \* calls of extraction_service.extract not returned
    error_messages,         \* "error" messages sent for a failed extraction
    \* history of the schedule calls, kept for the properties
    schedule_calls,         \* executions of the scheduling lines so far
    since_schedule,         \* time units since the last of them (capped)
    countdown_calls,        \* of them, since the current task was created
    created_age,            \* time units since the current task was created
    countdowns,             \* _debounced_extraction tasks created so far
    runs,                   \* debounced extractions begun so far
    burst_runs,             \* of them, since the current burst of calls began
    raised,                 \* debounced extractions that raised so far
    \* TranscriptionManager under the client's control messages
    session,                \* "None", or "attached": self.session is a session
    is_recording,           \* session_state.is_recording
    is_paused,              \* session_state.is_paused
    patient_name,           \* session_state.patient_name
    current_form_data,      \* <<>> is MedicalFormData(), else the transcript
                            \* the data was extracted from
    full_transcript,        \* the transcript _debounced_extraction read, while
                            \* its extract is in flight
    since_reset,            \* "none": no reset() so far; "clean": none of
                            \* on_final_transcript began since the last one;
                            \* "final": one did
    \* transcription_websocket
    socket_pc,              \* "receiving", or "closed" once the handler ended
    received,               \* messages websocket.receive() returned so far
    sent,                   \* the types of the messages sent to the client
    \* the voice assistant's speakers.json
    raw_speakers,           \* the GET_SPEAKERS result handed to save_speakers
    speakers_file,          \* <<>> while the file does not exist, else <<its
                            \* JSON document>>
    written,                \* the list save_speakers dumped, <<>> before
    known_speakers          \* what load_known_speakers returned last

sessionVars == <<session_pc, _running, _client, _utterance_texts,
                 _utterance_speakers, _utterance_start, _utterance_end,
                 on_final_tasks, on_error_calls, on_partial_tasks>>
accumulator == <<_utterance_texts, _utterance_speakers, _utterance_start,
                 _utterance_end>>
turnsVars == <<current_utterance, utterance_start_time, utterances,
              partial_prints>>
callVars == <<response_pc, conversation_history, is_connected>>
speakVars == <<speak_pc, tts_chunks, pcm_buffer, media_sent>>
dialerVars == <<current_turn_segments, response_tasks, callVars, speakVars>>
resolverVars == <<resolver_results, resolver_out>>
historyVars == <<turn, turns, last_turn>>
managerState == <<manager_pc, emitted, on_final_transcript_tasks,
                  transcript_buffer, _pending_extraction, _pending_suggestions,
                  _extraction_task, _suggestions_task, sleep_left,
                  extractions_in_flight, error_messages>>
scheduleHistory == <<schedule_calls, since_schedule, countdown_calls,
                     created_age, countdowns, runs, burst_runs, raised>>
managerVars == <<managerState, scheduleHistory>>
session_state == <<is_recording, is_paused, patient_name>>
controlVars == <<session, session_state, current_form_data, full_transcript,
                 since_reset>>
socketVars == <<socket_pc, received, sent>>
speakersVars == <<raw_speakers, speakers_file, written, known_speakers>>
vars == <<prog, clock, sessionVars, turnsVars, dialerVars, resolverVars,
          historyVars, last_event, managerVars, controlVars, socketVars,
          speakersVars>>

\* ---------------------------------------------------------------- history
\* words of `results` that carry speaker label l
WordVotes(results, l) ==
    Cardinality({ i \in DOMAIN results :
                    /\ results[i].type = "word"
                    /\ results[i].alternatives # <<>>
                    /\ results[i].alternatives[1].speaker = l })

EmptyTurn ==
    [texts |-> <<>>, words |-> [l \in Labels |-> 0],
     first_start |-> <<>>, last_end |-> <<>>]

\* a final fragment was accepted into the current turn
ObserveFragment(text, start, end, results) ==
    turn' = [texts |-> Append(turn.texts, text),
             words |-> [l \in Labels |-> turn.words[l] + WordVotes(results, l)],
             first_start |-> IF turn.texts = <<>> THEN <<start>>
                             ELSE turn.first_start,
             last_end |-> <<end>>]

\* no turn was completed yet
NoTurn ==
    [texts |-> <<>>, words |-> [l \in Labels |-> 0],
     first_start |-> <<>>, last_end |-> <<>>, eou |-> <<>>, by |-> "none"]

\* an end of turn (eou = <<t>> when it carries a timestamp, <<>> when not) or
\* a flush arrived; it closes the current turn when that holds a fragment
ObserveTurnEnd(eou, by) ==
    IF turn.texts = <<>> THEN UNCHANGED historyVars
    ELSE /\ turns' = Append(turns, turn.texts)
         /\ last_turn' = [texts |-> turn.texts, words |-> turn.words,
                          first_start |-> turn.first_start,
                          last_end |-> turn.last_end,
                          eou |-> eou, by |-> by]
         /\ turn' = EmptyTurn

\* ---------------------------------------------------------------- messages
\* ADD_TRANSCRIPT as the recogniser sends it at the current stream time
AddTranscript(transcript, results) ==
    [metadata |-> [transcript |-> transcript, start_time |-> clock,
                   end_time |-> clock + 1],
     results |-> results]

\* the results of the ADD_PARTIAL_TRANSCRIPT messages considered
PartialResults ==
    { <<>>, <<[type |-> "word", alternatives |-> <<[speaker |-> "S2"]>>]>> }

\* an end-of-utterance timestamp: missing, or at/after the last word's end
EouTimes == { <<>>, <<clock>>, <<clock + 1>> }

\* ---------------------------------------------------------------- session
\* a plausible slip: the end time is taken from the turn's start
on_eou_diarized_start_as_end ==
    [text |-> join(_utterance_texts),
     speaker |-> IF _utterance_speakers # <<>>
                 THEN most_common_1(_utterance_speakers) ELSE "UNK",
     start_time |-> _utterance_start,
     end_time |-> _utterance_start,
     is_partial |-> FALSE]

\* the DiarizedTranscript on_eou builds from the accumulator
on_eou_diarized ==
    [text |-> join(_utterance_texts),
     speaker |-> IF _utterance_speakers # <<>>
                 THEN most_common_1(_utterance_speakers) ELSE "UNK",
     start_time |-> _utterance_start,
     end_time |-> _utterance_end,
     is_partial |-> FALSE]

\* the accumulator as on_eou leaves it ("Clear accumulator")
on_eou_cleared == << <<>>, <<>>, 0, 0 >>

\* the DiarizedTranscript _flush_utterance builds from the accumulator
flush_diarized ==
    [text |-> join(_utterance_texts),
     speaker |-> IF _utterance_speakers # <<>>
                 THEN most_common_1(_utterance_speakers) ELSE "UNK",
     start_time |-> _utterance_start,
     end_time |-> _utterance_end,
     is_partial |-> FALSE]

\* the accumulator as _flush_utterance leaves it: the two lists are cleared
flush_cleared == << <<>>, <<>>, _utterance_start, _utterance_end >>

\* the four accumulator fields assigned together
SetAccumulator(cleared) ==
    /\ _utterance_texts' = cleared[1]
    /\ _utterance_speakers' = cleared[2]
    /\ _utterance_start' = cleared[3]
    /\ _utterance_end' = cleared[4]

\* TranscriptionSession.start(); ok: start_session() did not raise
start(ok) ==
    /\ prog = "session"
    /\ last_event' = "start"
    /\ session_pc = "constructed"
    /\ session_pc' = "started"
    /\ IF ok
       THEN /\ _client' = TRUE
            /\ _running' = TRUE
            /\ UNCHANGED on_error_calls
       ELSE /\ on_error_calls' = on_error_calls + 1
            /\ _client' = FALSE
            /\ UNCHANGED _running
    /\ UNCHANGED <<accumulator, on_final_tasks, on_partial_tasks>>
    /\ UNCHANGED <<prog, managerVars, controlVars, socketVars, speakersVars>>
    /\ UNCHANGED <<clock, turnsVars, dialerVars, resolverVars, historyVars>>

\* TranscriptionSession._parse_transcript(message, is_partial)
_parse_transcript(message, is_partial) ==
    [text |-> message.metadata.transcript,
     speaker |-> _get_dominant_speaker(message.results),
     start_time |-> message.metadata.start_time,
     end_time |-> message.metadata.end_time,
     is_partial |-> is_partial]

\* a plausible slip: the partial text is kept with the finals
on_partial_accumulates(message) ==
    LET text == message.metadata.transcript
    IN /\ prog = "session"
       /\ session_pc # "constructed"
       /\ clock < MaxFrags
       /\ clock' = clock + 1
       /\ last_event' = "partial"
       /\ IF ~_running \/ strip(text) = <<>>
          THEN UNCHANGED <<on_partial_tasks, _utterance_texts>>
          ELSE /\ on_partial_tasks' =
                      Append(on_partial_tasks, _parse_transcript(message, TRUE))
               /\ _utterance_texts' = Append(_utterance_texts, strip(text))
       /\ UNCHANGED <<_utterance_speakers, _utterance_start, _utterance_end>>
       /\ UNCHANGED <<session_pc, _running, _client, on_final_tasks,
                      on_error_calls, historyVars>>
       /\ UNCHANGED <<prog, managerVars, controlVars, socketVars, speakersVars>>
       /\ UNCHANGED <<turnsVars, dialerVars, resolverVars>>

\* the ADD_PARTIAL_TRANSCRIPT handler registered by start()
on_partial(message) ==
    LET text == message.metadata.transcript
    IN /\ prog = "session"
       /\ session_pc # "constructed"
       /\ clock < MaxFrags
       /\ clock' = clock + 1
       /\ last_event' = "partial"
       /\ IF ~_running \/ strip(text) = <<>>
          THEN UNCHANGED on_partial_tasks
          ELSE on_partial_tasks' =
                   Append(on_partial_tasks, _parse_transcript(message, TRUE))
       /\ UNCHANGED <<accumulator, session_pc, _running, _client,
                      on_final_tasks, on_error_calls, historyVars>>
       /\ UNCHANGED <<prog, managerVars, controlVars, socketVars, speakersVars>>
       /\ UNCHANGED <<turnsVars, dialerVars, resolverVars>>

\* a plausible slip: every accepted fragment stamps the start time
on_final_restamps(message) ==
    LET metadata == message.metadata
        text == metadata.transcript
        speaker == _get_dominant_speaker(message.results)
    IN /\ prog = "session"
       /\ session_pc # "constructed"
       /\ clock < MaxFrags
       /\ clock' = clock + 1
       /\ last_event' = "final"
       /\ IF ~_running \/ strip(text) = <<>>
          THEN UNCHANGED <<accumulator, turn>>
          ELSE /\ _utterance_start' = metadata.start_time
               /\ _utterance_end' = metadata.end_time
               /\ _utterance_texts' = Append(_utterance_texts, strip(text))
               /\ _utterance_speakers' = IF speaker # "UNK"
                                         THEN Append(_utterance_speakers, speaker)
                                         ELSE _utterance_speakers
               /\ ObserveFragment(text, metadata.start_time, metadata.end_time,
                                  message.results)
       /\ UNCHANGED <<session_pc, _running, _client, on_final_tasks,
                      on_error_calls, on_partial_tasks, turns, last_turn>>
       /\ UNCHANGED <<prog, managerVars, controlVars, socketVars, speakersVars>>
       /\ UNCHANGED <<turnsVars, dialerVars, resolverVars>>

\* a plausible slip: on_final without the test of _running
on_final_unguarded(message) ==
    LET metadata == message.metadata
        text == metadata.transcript
        speaker == _get_dominant_speaker(message.results)
    IN /\ prog = "session"
       /\ session_pc # "constructed"
       /\ clock < MaxFrags
       /\ clock' = clock + 1
       /\ last_event' = "final"
       /\ IF strip(text) = <<>>
          THEN UNCHANGED <<accumulator, turn>>
          ELSE /\ _utterance_start' = IF _utterance_texts = <<>>
                                      THEN metadata.start_time
                                      ELSE _utterance_start
               /\ _utterance_end' = metadata.end_time
               /\ _utterance_texts' = Append(_utterance_texts, strip(text))
               /\ _utterance_speakers' = IF speaker # "UNK"
                                         THEN Append(_utterance_speakers, speaker)
                                         ELSE _utterance_speakers
               /\ ObserveFragment(text, metadata.start_time, metadata.end_time,
                                  message.results)
       /\ UNCHANGED <<session_pc, _running, _client, on_final_tasks,
                      on_error_calls, on_partial_tasks, turns, last_turn>>
       /\ UNCHANGED <<prog, managerVars, controlVars, socketVars, speakersVars>>
       /\ UNCHANGED <<turnsVars, dialerVars, resolverVars>>

\* a plausible slip: the text is appended as received
on_final_unstripped(message) ==
    LET metadata == message.metadata
        text == metadata.transcript
        speaker == _get_dominant_speaker(message.results)
    IN /\ prog = "session"
       /\ session_pc # "constructed"
       /\ clock < MaxFrags
       /\ clock' = clock + 1
       /\ last_event' = "final"
       /\ IF ~_running \/ strip(text) = <<>>
          THEN UNCHANGED <<accumulator, turn>>
          ELSE /\ _utterance_start' = IF _utterance_texts = <<>>
                                      THEN metadata.start_time
                                      ELSE _utterance_start
               /\ _utterance_end' = metadata.end_time
               /\ _utterance_texts' = Append(_utterance_texts, text)
               /\ _utterance_speakers' = IF speaker # "UNK"
                                         THEN Append(_utterance_speakers, speaker)
                                         ELSE _utterance_speakers
               /\ ObserveFragment(text, metadata.start_time, metadata.end_time,
                                  message.results)
       /\ UNCHANGED <<session_pc, _running, _client, on_final_tasks,
                      on_error_calls, on_partial_tasks, turns, last_turn>>
       /\ UNCHANGED <<prog, managerVars, controlVars, socketVars, speakersVars>>
       /\ UNCHANGED <<turnsVars, dialerVars, resolverVars>>

\* the ADD_TRANSCRIPT handler registered by start()
on_final(message) ==
    LET metadata == message.metadata
        text == metadata.transcript
        speaker == _get_dominant_speaker(message.results)
    IN /\ prog = "session"
       /\ session_pc # "constructed"
       /\ clock < MaxFrags
       /\ clock' = clock + 1
       /\ last_event' = "final"
       /\ IF ~_running \/ strip(text) = <<>>
          THEN UNCHANGED <<accumulator, turn>>
          ELSE /\ _utterance_start' = IF _utterance_texts = <<>>
                                      THEN metadata.start_time
                                      ELSE _utterance_start
               /\ _utterance_end' = metadata.end_time
               /\ _utterance_texts' = Append(_utterance_texts, strip(text))
               /\ _utterance_speakers' = IF speaker # "UNK"
                                         THEN Append(_utterance_speakers, speaker)
                                         ELSE _utterance_speakers
               /\ ObserveFragment(text, metadata.start_time, metadata.end_time,
                                  message.results)
       /\ UNCHANGED <<session_pc, _running, _client, on_final_tasks,
                      on_error_calls, on_partial_tasks, turns, last_turn>>
       /\ UNCHANGED <<prog, managerVars, controlVars, socketVars, speakersVars>>
       /\ UNCHANGED <<turnsVars, dialerVars, resolverVars>>

\* a plausible slip: the utterance is handed over but the lists are kept
on_eou_keeps(message) ==
    /\ prog = "session"
    /\ last_event' = "eou"
    /\ session_pc # "constructed"
    /\ IF ~_running \/ _utterance_texts = <<>>
       THEN UNCHANGED <<accumulator, on_final_tasks>>
       ELSE /\ on_final_tasks' = Append(on_final_tasks, on_eou_diarized)
            /\ UNCHANGED accumulator
    /\ IF _running THEN ObserveTurnEnd(message.end_time, "eou")
       ELSE UNCHANGED historyVars
    /\ UNCHANGED <<session_pc, _running, _client, on_error_calls,
                   on_partial_tasks>>
    /\ UNCHANGED <<prog, managerVars, controlVars, socketVars, speakersVars>>
    /\ UNCHANGED <<clock, turnsVars, dialerVars, resolverVars>>

\* a plausible slip: the pending list is not checked before building
on_eou_unguarded(message) ==
    /\ prog = "session"
    /\ last_event' = "eou"
    /\ session_pc # "constructed"
    /\ IF ~_running
       THEN UNCHANGED <<accumulator, on_final_tasks>>
       ELSE /\ on_final_tasks' = Append(on_final_tasks, on_eou_diarized)
            /\ SetAccumulator(on_eou_cleared)
    /\ IF _running THEN ObserveTurnEnd(message.end_time, "eou")
       ELSE UNCHANGED historyVars
    /\ UNCHANGED <<session_pc, _running, _client, on_error_calls,
                   on_partial_tasks>>
    /\ UNCHANGED <<prog, managerVars, controlVars, socketVars, speakersVars>>
    /\ UNCHANGED <<clock, turnsVars, dialerVars, resolverVars>>

\* the END_OF_UTTERANCE handler registered by start(); message.end_time is
\* <<t>> when the message carries a timestamp and <<>> when it does not
on_eou(message) ==
    /\ prog = "session"
    /\ last_event' = "eou"
    /\ session_pc # "constructed"
    /\ IF ~_running \/ _utterance_texts = <<>>
       THEN UNCHANGED <<accumulator, on_final_tasks>>
       ELSE /\ on_final_tasks' = Append(on_final_tasks, on_eou_diarized)
            /\ SetAccumulator(on_eou_cleared)
    /\ IF _running THEN ObserveTurnEnd(message.end_time, "eou")
       ELSE UNCHANGED historyVars
    /\ UNCHANGED <<session_pc, _running, _client, on_error_calls,
                   on_partial_tasks>>
    /\ UNCHANGED <<prog, managerVars, controlVars, socketVars, speakersVars>>
    /\ UNCHANGED <<clock, turnsVars, dialerVars, resolverVars>>

\* a plausible slip: the early return is taken on pending text
_flush_utterance_drops ==
    /\ SetAccumulator(flush_cleared)
    /\ UNCHANGED on_final_tasks

\* TranscriptionSession._flush_utterance()
_flush_utterance ==
    IF _utterance_texts = <<>>
    THEN UNCHANGED <<accumulator, on_final_tasks>>
    ELSE /\ on_final_tasks' = Append(on_final_tasks, flush_diarized)
         /\ SetAccumulator(flush_cleared)

\* TranscriptionSession.stop()
stop ==
    /\ prog = "session"
    /\ last_event' = "stop"
    /\ _flush_utterance
    /\ _running' = FALSE
    /\ _client' = FALSE
    /\ session_pc' = "stopped"
    /\ ObserveTurnEnd(<<>>, "flush")
    /\ UNCHANGED <<on_error_calls, on_partial_tasks>>
    /\ UNCHANGED <<prog, managerVars, controlVars, socketVars, speakersVars>>
    /\ UNCHANGED <<clock, turnsVars, dialerVars, resolverVars>>

\* ---------------------------------------------------------------- turn detection
\* handle_partial, the ADD_PARTIAL_TRANSCRIPT handler of the turn-detection
\* example: the transcript is printed over the console line when not empty
handle_partial(message) ==
    LET transcript == message.metadata.transcript
    IN /\ prog = "turns"
       /\ clock < MaxFrags
       /\ clock' = clock + 1
       /\ last_event' = "partial"
       /\ partial_prints' = IF transcript # <<>>
                            THEN Append(partial_prints, transcript)
                            ELSE partial_prints
       /\ UNCHANGED <<current_utterance, utterance_start_time, utterances,
                      historyVars>>
       /\ UNCHANGED <<prog, managerVars, controlVars, socketVars, speakersVars>>
       /\ UNCHANGED <<sessionVars, dialerVars, resolverVars>>

\* handle_transcript, the ADD_TRANSCRIPT handler of the turn-detection example
handle_transcript(message) ==
    LET transcript == message.metadata.transcript
    IN /\ prog = "turns"
       /\ clock < MaxFrags
       /\ clock' = clock + 1
       /\ last_event' = "final"
       /\ IF transcript = <<>>
          THEN UNCHANGED <<current_utterance, utterance_start_time, turn>>
          ELSE /\ utterance_start_time' =
                      IF current_utterance = <<>>
                      THEN <<message.metadata.start_time>>
                      ELSE utterance_start_time
               /\ current_utterance' = Append(current_utterance, strip(transcript))
               /\ ObserveFragment(transcript, message.metadata.start_time,
                                  message.metadata.end_time, message.results)
       /\ UNCHANGED <<utterances, partial_prints, turns, last_turn>>
       /\ UNCHANGED <<prog, managerVars, controlVars, socketVars, speakersVars>>
       /\ UNCHANGED <<sessionVars, dialerVars, resolverVars>>

\* handle_end_of_utterance; message.end_of_utterance_time is <<t>> when the
\* key is present and <<>> when message.get() falls back to 0
handle_end_of_utterance(message) ==
    /\ prog = "turns"
    /\ last_event' = "eou"
    /\ IF current_utterance # <<>> /\ utterance_start_time # <<>>
       THEN LET full_text == join(current_utterance)
                end_time == IF message.end_of_utterance_time # <<>>
                            THEN message.end_of_utterance_time[1] ELSE 0
                duration == end_time - utterance_start_time[1]
            IN /\ utterances' = Append(utterances, [text |-> full_text,
                                                    duration |-> duration])
               /\ current_utterance' = <<>>
               /\ utterance_start_time' = <<>>
       ELSE UNCHANGED <<current_utterance, utterance_start_time, utterances>>
    /\ UNCHANGED partial_prints
    /\ ObserveTurnEnd(message.end_of_utterance_time, "eou")
    /\ UNCHANGED <<prog, managerVars, controlVars, socketVars, speakersVars>>
    /\ UNCHANGED <<clock, sessionVars, dialerVars, resolverVars>>

\* ---------------------------------------------------------------- dialer
\* the texts on_segment's loop appends: the non-empty ones, in order
RECURSIVE SegmentTexts(_)
SegmentTexts(segments) ==
    IF segments = <<>> THEN <<>>
    ELSE IF Head(segments).text # <<>>
         THEN <<Head(segments).text>> \o SegmentTexts(Tail(segments))
         ELSE SegmentTexts(Tail(segments))

\* the current turn after each of `texts` was accepted in order
RECURSIVE WithFragments(_, _)
WithFragments(t, texts) ==
    IF texts = <<>> THEN t
    ELSE WithFragments([t EXCEPT !.texts = Append(t.texts, Head(texts)),
                                 !.first_start = IF t.texts = <<>> THEN <<clock>>
                                                 ELSE t.first_start,
                                 !.last_end = <<clock + 1>>],
                       Tail(texts))

\* on_segment, the ADD_SEGMENT handler of the dialer
on_segment(message) ==
    /\ prog = "dialer"
    /\ last_event' = "final"
    /\ clock < MaxFrags
    /\ clock' = clock + 1
    /\ current_turn_segments' =
           current_turn_segments \o SegmentTexts(message.segments)
    /\ turn' = WithFragments(turn, SegmentTexts(message.segments))
    /\ UNCHANGED <<response_tasks, callVars, speakVars, turns, last_turn>>
    /\ UNCHANGED <<prog, managerVars, controlVars, socketVars, speakersVars>>
    /\ UNCHANGED <<sessionVars, turnsVars, resolverVars>>

\* on_end_of_turn, the END_OF_TURN handler of the dialer
on_end_of_turn(message) ==
    /\ prog = "dialer"
    /\ last_event' = "eou"
    /\ IF current_turn_segments # <<>>
       THEN LET user_input == join(current_turn_segments)
            IN /\ current_turn_segments' = <<>>
               /\ response_tasks' = Append(response_tasks, user_input)
               /\ response_pc' = Append(response_pc, "created")
               /\ UNCHANGED <<conversation_history, is_connected, speakVars>>
       ELSE UNCHANGED dialerVars
    /\ ObserveTurnEnd(<<>>, "eou")
    /\ UNCHANGED <<prog, managerVars, controlVars, socketVars, speakersVars>>
    /\ UNCHANGED <<clock, sessionVars, turnsVars, resolverVars>>

\* the responses the LLM streams: none, or some text
Responses == { <<>>, <<"r">> }

dialerOthers == <<sessionVars, turnsVars, resolverVars, managerVars,
                  controlVars, socketVars, speakersVars>>

callOthers == <<dialerOthers, speakVars>>

\* generate_response up to its await of openai_client...create; the event
\* loop starts tasks in the order of their creation
generate_response_begins ==
    /\ prog = "dialer"
    /\ \E i \in DOMAIN response_pc :
           /\ response_pc[i] = "created"
           /\ \A j \in 1..(i - 1) : response_pc[j] # "created"
           /\ IF ~is_connected
              THEN /\ response_pc' = [response_pc EXCEPT ![i] = "done"]
                   /\ UNCHANGED conversation_history
              ELSE /\ response_pc' = [response_pc EXCEPT ![i] = "create"]
                   /\ conversation_history' =
                          Append(conversation_history,
                                 [role |-> "user", content |-> response_tasks[i]])
    /\ last_event' = "response_begins"
    /\ UNCHANGED <<current_turn_segments, response_tasks, is_connected>>
    /\ UNCHANGED <<prog, clock, historyVars, callOthers>>

\* generate_response from the end of the LLM's stream, which produced
\* `response`, to its await of speak(response)
generate_response_replies(response) ==
    /\ prog = "dialer"
    /\ \E i \in DOMAIN response_pc :
           /\ response_pc[i] = "create"
           /\ IF response # <<>>
              THEN /\ conversation_history' =
                          Append(conversation_history,
                                 [role |-> "assistant", content |-> response])
                   /\ response_pc' = [response_pc EXCEPT ![i] = "speak"]
              ELSE /\ response_pc' = [response_pc EXCEPT ![i] = "done"]
                   /\ UNCHANGED conversation_history
    /\ last_event' = "response_replies"
    /\ UNCHANGED <<current_turn_segments, response_tasks, is_connected>>
    /\ UNCHANGED <<prog, clock, historyVars, callOthers>>

\* speak(response) returns and generate_response ends
generate_response_returns ==
    /\ prog = "dialer"
    /\ \E i \in DOMAIN response_pc :
           /\ response_pc[i] = "speak"
           /\ response_pc' = [response_pc EXCEPT ![i] = "done"]
    /\ last_event' = "response_returns"
    /\ UNCHANGED <<current_turn_segments, response_tasks,
                   conversation_history, is_connected>>
    /\ UNCHANGED <<prog, clock, historyVars, callOthers>>

\* disconnect(), the function run_voice_assistant returns to its caller
disconnect ==
    /\ prog = "dialer"
    /\ is_connected
    /\ is_connected' = FALSE
    /\ last_event' = "disconnect"
    /\ UNCHANGED <<current_turn_segments, response_tasks, response_pc,
                   conversation_history>>
    /\ UNCHANGED <<prog, clock, historyVars, callOthers>>

\* ---------------------------------------------------------------- dialer speak
\* speak(text) of the outbound dialer.  A bytes value is a sequence of runs
\* <<k, a, b>>, the bytes a+1..b of the k-th chunk of the TTS stream, in
\* normal form: no empty run, and no two adjacent runs that continue one
\* another.  Each byte of the stream keeps its identity that way.

\* the size of the chunks sent while the stream runs (20 ms of audio)
ChunkBytes == 640

\* chunks audio_stream yields in one call
MaxChunks == 3

\* the sizes of the chunks audio_stream yields
TtsChunkSizes == {1, 320, 640, 1279}

\* chunk number k of the stream, of n bytes
TtsChunk(k, n) == << <<k, 0, n>> >>

RECURSIVE BLen(_)
\* len(x)
BLen(x) == IF x = <<>> THEN 0 ELSE (Head(x)[3] - Head(x)[2]) + BLen(Tail(x))

\* x + y
BCat(x, y) ==
    IF x = <<>> THEN y
    ELSE IF y = <<>> THEN x
    ELSE LET l == x[Len(x)]
             h == Head(y)
         IN IF l[1] = h[1] /\ l[3] = h[2]
            THEN SubSeq(x, 1, Len(x) - 1) \o << <<l[1], l[2], h[3]>> >>
                     \o Tail(y)
            ELSE x \o y

RECURSIVE BTake(_, _)
\* x[:n]
BTake(x, n) ==
    IF n = 0 \/ x = <<>> THEN <<>>
    ELSE LET r == Head(x)
             size == r[3] - r[2]
         IN IF size <= n THEN <<r>> \o BTake(Tail(x), n - size)
            ELSE << <<r[1], r[2], r[2] + n>> >>

RECURSIVE BDrop(_, _)
\* x[n:]
BDrop(x, n) ==
    IF n = 0 \/ x = <<>> THEN x
    ELSE LET r == Head(x)
             size == r[3] - r[2]
         IN IF size <= n THEN BDrop(Tail(x), n - size)
            ELSE << <<r[1], r[2] + n, r[3]>> >> \o Tail(x)

RECURSIVE BCatAll(_)
\* b"".join(xs)
BCatAll(xs) == IF xs = <<>> THEN <<>> ELSE BCat(Head(xs), BCatAll(Tail(xs)))

\* pcm_to_mulaw(pcm_16khz): 16-bit samples at 16 kHz are resampled to 8 kHz
\* and encoded as one mu-law byte a sample, then as base64 text
pcm_to_mulaw(pcm_16khz) ==
    [encoding |-> "mulaw/8000 base64",
     samples |-> BLen(pcm_16khz) \div 4,
     pcm |-> pcm_16khz]

speakOthers == <<current_turn_segments, response_tasks, response_pc,
                 conversation_history, historyVars, clock, dialerOthers>>

\* speak() is called: it returns at once on a closed call, else it opens the
\* TTS stream
speak_begins ==
    /\ prog = "dialer"
    /\ speak_pc = "idle"
    /\ speak_pc' = IF is_connected THEN "stream" ELSE "done"
    /\ last_event' = "speak"
    /\ UNCHANGED <<tts_chunks, pcm_buffer, media_sent, is_connected>>
    /\ UNCHANGED <<prog, speakOthers>>

\* the head of the while loop of speak(), reached with the buffer `buffer`:
\* with a full chunk in it, send_audio is called on the first ChunkBytes
\* bytes, and awaits the socket when the call is connected
speak_loop(buffer) ==
    IF BLen(buffer) >= ChunkBytes
    THEN IF is_connected
         THEN /\ media_sent' =
                     Append(media_sent, pcm_to_mulaw(BTake(buffer, ChunkBytes)))
              /\ pcm_buffer' = buffer
              /\ speak_pc' = "send"
         ELSE /\ pcm_buffer' = BDrop(buffer, ChunkBytes)
              /\ speak_pc' = "sleep"
              /\ UNCHANGED media_sent
    ELSE /\ pcm_buffer' = buffer
         /\ speak_pc' = "stream"
         /\ UNCHANGED media_sent

\* audio_stream yields a chunk of n bytes
speak_receives(n) ==
    /\ prog = "dialer"
    /\ speak_pc = "stream"
    /\ Len(tts_chunks) < MaxChunks
    /\ tts_chunks' = Append(tts_chunks, TtsChunk(Len(tts_chunks) + 1, n))
    /\ IF ~is_connected
       THEN /\ speak_pc' = "done"
            /\ UNCHANGED <<pcm_buffer, media_sent>>
       ELSE speak_loop(BCat(pcm_buffer, TtsChunk(Len(tts_chunks) + 1, n)))
    /\ last_event' = "tts_chunk"
    /\ UNCHANGED is_connected
    /\ UNCHANGED <<prog, speakOthers>>

\* send_json returned: the chunk sent leaves the buffer and speak() sleeps
speak_sent ==
    /\ prog = "dialer"
    /\ speak_pc = "send"
    /\ pcm_buffer' = BDrop(pcm_buffer, ChunkBytes)
    /\ speak_pc' = "sleep"
    /\ last_event' = "media"
    /\ UNCHANGED <<tts_chunks, media_sent, is_connected>>
    /\ UNCHANGED <<prog, speakOthers>>

\* asyncio.sleep(0.02) is over: back to the head of the while loop
speak_paced ==
    /\ prog = "dialer"
    /\ speak_pc = "sleep"
    /\ speak_loop(pcm_buffer)
    /\ last_event' = "paced"
    /\ UNCHANGED <<tts_chunks, is_connected>>
    /\ UNCHANGED <<prog, speakOthers>>

\* a plausible slip: the rest of the buffer is not sent
speak_stream_ends_drops_rest ==
    /\ prog = "dialer"
    /\ speak_pc = "stream"
    /\ BLen(BCatAll(tts_chunks)) % 2 = 0
    /\ speak_pc' = "done"
    /\ UNCHANGED media_sent
    /\ last_event' = "tts_end"
    /\ UNCHANGED <<tts_chunks, pcm_buffer, is_connected>>
    /\ UNCHANGED <<prog, speakOthers>>

\* audio_stream is exhausted ("Send any remaining audio"); a pcm_16000
\* stream ends on a whole 16-bit sample
speak_stream_ends ==
    /\ prog = "dialer"
    /\ speak_pc = "stream"
    /\ BLen(BCatAll(tts_chunks)) % 2 = 0
    /\ speak_pc' = "done"
    /\ media_sent' = IF pcm_buffer # <<>> /\ is_connected
                     THEN Append(media_sent, pcm_to_mulaw(pcm_buffer))
                     ELSE media_sent
    /\ last_event' = "tts_end"
    /\ UNCHANGED <<tts_chunks, pcm_buffer, is_connected>>
    /\ UNCHANGED <<prog, speakOthers>>

\* ---------------------------------------------------------------- resolver alone
resolve ==
    /\ prog = "resolver"
    /\ last_event' = "resolve"
    /\ resolver_out = <<>>
    /\ resolver_out' = <<_get_dominant_speaker(resolver_results)>>
    /\ UNCHANGED <<prog, managerVars, controlVars, socketVars, speakersVars>>
    /\ UNCHANGED <<clock, resolver_results, sessionVars, turnsVars,
                   dialerVars, historyVars>>

\* ---------------------------------------------------------------- manager
\* TranscriptionManager (use-cases/06-medical-assistant/backend/main.py) with
\* a session attached: the session hands each utterance to
\* on_final_transcript in a task of its own, and on_final_transcript ends by
\* scheduling the debounced extraction.  Time passes in units of half a second.

\* utterances the session hands over before the manager is stopped
MaxCalls == 3

\* asyncio.sleep(1.5) of _debounced_extraction, in units of half a second
QuietPeriod == 3

Min(a, b) == IF a < b THEN a ELSE b

RemoveAt(s, i) == SubSeq(s, 1, i - 1) \o SubSeq(s, i + 1, Len(s))

otherProgs == <<clock, sessionVars, turnsVars, dialerVars, resolverVars,
                historyVars, socketVars, speakersVars>>

\* the scheduling lines ran; creates: they created a _debounced_extraction task
ObserveSchedule(creates) ==
    /\ schedule_calls' = schedule_calls + 1
    /\ since_schedule' = 0
    /\ burst_runs' = IF since_schedule < QuietPeriod THEN burst_runs ELSE 0
    /\ countdown_calls' = IF creates THEN 1 ELSE countdown_calls + 1
    /\ created_age' = IF creates THEN 0 ELSE created_age
    /\ countdowns' = IF creates THEN countdowns + 1 ELSE countdowns
    /\ UNCHANGED <<runs, raised>>

\* a plausible slip: every call creates a task, whatever the last one does
schedule_always_creates ==
    /\ _pending_extraction' = TRUE
    /\ _pending_suggestions' = TRUE
    /\ _extraction_task' = "sleeping"
    /\ sleep_left' = QuietPeriod
    /\ ObserveSchedule(TRUE)

\* a plausible slip: a call made during the sleep starts the sleep again
schedule_restarts ==
    LET creates == _extraction_task \in {"None", "done"}
    IN /\ _pending_extraction' = TRUE
       /\ _pending_suggestions' = TRUE
       /\ _extraction_task' = IF creates THEN "sleeping" ELSE _extraction_task
       /\ sleep_left' = IF creates \/ _extraction_task = "sleeping"
                        THEN QuietPeriod ELSE sleep_left
       /\ ObserveSchedule(creates)

\* "Schedule extraction (debounced)", the last lines of on_final_transcript
schedule ==
    LET creates == _extraction_task \in {"None", "done"}
    IN /\ _pending_extraction' = TRUE
       /\ _pending_suggestions' = TRUE
       /\ _extraction_task' = IF creates THEN "sleeping" ELSE _extraction_task
       /\ sleep_left' = IF creates THEN QuietPeriod ELSE sleep_left
       /\ ObserveSchedule(creates)

\* the session's on_eou hands an utterance over:
\* asyncio.create_task(self.on_final(diarized)); utterance k carries the text k
create_on_final_task ==
    /\ prog = "manager"
    /\ manager_pc = "recording"
    /\ emitted < MaxCalls
    /\ emitted' = emitted + 1
    /\ on_final_transcript_tasks' =
           Append(on_final_transcript_tasks,
                  [data |-> emitted + 1, pc |-> "created"])
    /\ last_event' = "emit"
    /\ UNCHANGED <<manager_pc, transcript_buffer, _pending_extraction,
                   _pending_suggestions, _extraction_task, _suggestions_task,
                   sleep_left, extractions_in_flight, error_messages>>
    /\ UNCHANGED <<prog, otherProgs, scheduleHistory>>
    /\ UNCHANGED controlVars

\* a plausible slip: the tasks created start in any order
on_final_transcript_begins_any ==
    /\ prog = "manager"
    /\ \E i \in DOMAIN on_final_transcript_tasks :
           /\ on_final_transcript_tasks[i].pc = "created"
           /\ transcript_buffer' =
                  Append(transcript_buffer, on_final_transcript_tasks[i].data)
           /\ on_final_transcript_tasks' =
                  [on_final_transcript_tasks EXCEPT ![i].pc = "sending"]
    /\ last_event' = "final"
    /\ UNCHANGED <<manager_pc, emitted, _pending_extraction,
                   _pending_suggestions, _extraction_task, _suggestions_task,
                   sleep_left, extractions_in_flight, error_messages>>
    /\ UNCHANGED <<prog, otherProgs, scheduleHistory>>
    /\ since_reset' = IF since_reset = "clean" THEN "final" ELSE since_reset
    /\ UNCHANGED <<session, session_state, current_form_data, full_transcript>>

\* on_final_transcript up to its await of send_message("final", ...); the
\* event loop starts tasks in the order of their creation.  (The list
\* diarized_utterances grows in step with transcript_buffer.)
on_final_transcript_begins ==
    /\ prog = "manager"
    /\ \E i \in DOMAIN on_final_transcript_tasks :
           /\ on_final_transcript_tasks[i].pc = "created"
           /\ \A j \in 1..(i - 1) : on_final_transcript_tasks[j].pc # "created"
           /\ transcript_buffer' =
                  Append(transcript_buffer, on_final_transcript_tasks[i].data)
           /\ on_final_transcript_tasks' =
                  [on_final_transcript_tasks EXCEPT ![i].pc = "sending"]
    /\ last_event' = "final"
    /\ UNCHANGED <<manager_pc, emitted, _pending_extraction,
                   _pending_suggestions, _extraction_task, _suggestions_task,
                   sleep_left, extractions_in_flight, error_messages>>
    /\ UNCHANGED <<prog, otherProgs, scheduleHistory>>
    /\ since_reset' = IF since_reset = "clean" THEN "final" ELSE since_reset
    /\ UNCHANGED <<session, session_state, current_form_data, full_transcript>>

\* on_final_transcript from the return of send_message to its end
on_final_transcript_schedules ==
    /\ prog = "manager"
    /\ \E i \in DOMAIN on_final_transcript_tasks :
           /\ on_final_transcript_tasks[i].pc = "sending"
           /\ on_final_transcript_tasks' = RemoveAt(on_final_transcript_tasks, i)
    /\ schedule
    /\ last_event' = "schedule"
    /\ UNCHANGED <<manager_pc, emitted, transcript_buffer, _suggestions_task,
                   extractions_in_flight, error_messages>>
    /\ UNCHANGED <<prog, otherProgs>>
    /\ UNCHANGED controlVars

\* half a second passes; a sleep that is over wakes its task first
Tick ==
    /\ prog = "manager"
    /\ _extraction_task = "sleeping" => sleep_left > 0
    /\ sleep_left' = IF _extraction_task = "sleeping"
                     THEN sleep_left - 1 ELSE sleep_left
    /\ since_schedule' = Min(since_schedule + 1, QuietPeriod)
    /\ created_age' = Min(created_age + 1, QuietPeriod + 1)
    /\ last_event' = "tick"
    /\ UNCHANGED <<manager_pc, emitted, on_final_transcript_tasks,
                   transcript_buffer, _pending_extraction, _pending_suggestions,
                   _extraction_task, _suggestions_task, extractions_in_flight,
                   error_messages>>
    /\ UNCHANGED <<schedule_calls, countdown_calls, countdowns, runs,
                   burst_runs, raised>>
    /\ UNCHANGED <<prog, otherProgs>>
    /\ UNCHANGED controlVars

\* _debounced_extraction from the end of its sleep to the await of
\* extraction_service.extract.  Over an empty buffer the transcript is blank:
\* extract returns MedicalFormData() without suspending, and the task goes on
\* to send the form_update and to its end
_debounced_extraction_wakes ==
    /\ prog = "manager"
    /\ _extraction_task = "sleeping"
    /\ sleep_left = 0
    /\ IF ~_pending_extraction
       THEN /\ _extraction_task' = "done"
            /\ last_event' = "wake"
            /\ UNCHANGED <<_pending_extraction, extractions_in_flight, runs,
                           burst_runs, _pending_suggestions, _suggestions_task,
                           current_form_data, full_transcript>>
       ELSE IF transcript_buffer # <<>>
       THEN /\ _pending_extraction' = FALSE
            /\ full_transcript' = transcript_buffer
            /\ _extraction_task' = "extracting"
            /\ extractions_in_flight' = extractions_in_flight + 1
            /\ runs' = runs + 1
            /\ burst_runs' = burst_runs + 1
            /\ last_event' = "debounced_run"
            /\ UNCHANGED <<_pending_suggestions, _suggestions_task,
                           current_form_data>>
       ELSE /\ _pending_extraction' = FALSE
            /\ current_form_data' = <<>>
            /\ _extraction_task' = "done"
            /\ runs' = runs + 1
            /\ burst_runs' = burst_runs + 1
            /\ last_event' = "form_update"
            /\ IF _pending_suggestions
               THEN /\ _pending_suggestions' = FALSE
                    /\ _suggestions_task' =
                           IF _suggestions_task \in {"None", "done"}
                           THEN "running" ELSE _suggestions_task
               ELSE UNCHANGED <<_pending_suggestions, _suggestions_task>>
            /\ UNCHANGED <<extractions_in_flight, full_transcript>>
    /\ UNCHANGED <<manager_pc, emitted, on_final_transcript_tasks,
                   transcript_buffer, sleep_left, error_messages>>
    /\ UNCHANGED <<schedule_calls, since_schedule, countdown_calls,
                   created_age, countdowns, raised>>
    /\ UNCHANGED <<session, session_state, since_reset>>
    /\ UNCHANGED <<prog, otherProgs>>

\* a plausible slip: an exception of extract ends the task unreported
_debounced_extraction_returns_silent(ok) ==
    /\ prog = "manager"
    /\ _extraction_task = "extracting"
    /\ _extraction_task' = "done"
    /\ extractions_in_flight' = extractions_in_flight - 1
    /\ IF ok
       THEN /\ last_event' = "form_update"
            /\ IF _pending_suggestions
               THEN /\ _pending_suggestions' = FALSE
                    /\ _suggestions_task' =
                           IF _suggestions_task \in {"None", "done"}
                           THEN "running" ELSE _suggestions_task
               ELSE UNCHANGED <<_pending_suggestions, _suggestions_task>>
            /\ UNCHANGED <<error_messages, raised>>
       ELSE /\ last_event' = "raised"
            /\ raised' = raised + 1
            /\ UNCHANGED <<error_messages, _pending_suggestions,
                           _suggestions_task>>
    /\ UNCHANGED <<manager_pc, emitted, on_final_transcript_tasks,
                   transcript_buffer, _pending_extraction, sleep_left>>
    /\ UNCHANGED <<schedule_calls, since_schedule, countdown_calls,
                   created_age, countdowns, runs, burst_runs>>
    /\ UNCHANGED <<prog, otherProgs>>
    /\ current_form_data' = IF ok THEN full_transcript ELSE current_form_data
    /\ full_transcript' = <<>>
    /\ UNCHANGED <<session, session_state, since_reset>>

\* _debounced_extraction from the return of extract to its end; ok: extract
\* returned a value, ~ok: it raised and the except clause ran
_debounced_extraction_returns(ok) ==
    /\ prog = "manager"
    /\ _extraction_task = "extracting"
    /\ _extraction_task' = "done"
    /\ extractions_in_flight' = extractions_in_flight - 1
    /\ IF ok
       THEN /\ last_event' = "form_update"
            /\ IF _pending_suggestions
               THEN /\ _pending_suggestions' = FALSE
                    /\ _suggestions_task' =
                           IF _suggestions_task \in {"None", "done"}
                           THEN "running" ELSE _suggestions_task
               ELSE UNCHANGED <<_pending_suggestions, _suggestions_task>>
            /\ UNCHANGED <<error_messages, raised>>
       ELSE /\ last_event' = "raised"
            /\ error_messages' = error_messages + 1
            /\ raised' = raised + 1
            /\ UNCHANGED <<_pending_suggestions, _suggestions_task>>
    /\ UNCHANGED <<manager_pc, emitted, on_final_transcript_tasks,
                   transcript_buffer, _pending_extraction, sleep_left>>
    /\ UNCHANGED <<schedule_calls, since_schedule, countdown_calls,
                   created_age, countdowns, runs, burst_runs>>
    /\ UNCHANGED <<prog, otherProgs>>
    /\ current_form_data' = IF ok THEN full_transcript ELSE current_form_data
    /\ full_transcript' = <<>>
    /\ UNCHANGED <<session, session_state, since_reset>>

\* _generate_suggestions returns (it reports its own exceptions by print)
_generate_suggestions_returns ==
    /\ prog = "manager"
    /\ _suggestions_task = "running"
    /\ _suggestions_task' = "done"
    /\ last_event' = "suggestions_update"
    /\ UNCHANGED <<manager_pc, emitted, on_final_transcript_tasks,
                   transcript_buffer, _pending_extraction, _pending_suggestions,
                   _extraction_task, sleep_left, extractions_in_flight,
                   error_messages>>
    /\ UNCHANGED <<prog, otherProgs, scheduleHistory>>
    /\ UNCHANGED controlVars

\* TranscriptionManager.stop() up to its await of session.stop(), and
\* session.stop() up to its first await; flushed: _flush_utterance found
\* fragments pending and created a task for on_final
manager_stop_begins(flushed) ==
    /\ prog = "manager"
    /\ manager_pc = "recording"
    /\ manager_pc' = "session.stop"
    /\ IF flushed
       THEN /\ emitted' = emitted + 1
            /\ on_final_transcript_tasks' =
                   Append(on_final_transcript_tasks,
                          [data |-> emitted + 1, pc |-> "created"])
       ELSE UNCHANGED <<emitted, on_final_transcript_tasks>>
    /\ last_event' = "stop"
    /\ UNCHANGED <<transcript_buffer, _pending_extraction,
                   _pending_suggestions, _extraction_task, _suggestions_task,
                   sleep_left, extractions_in_flight, error_messages>>
    /\ UNCHANGED <<prog, otherProgs, scheduleHistory>>
    /\ is_recording' = FALSE
    /\ is_paused' = FALSE
    /\ UNCHANGED <<session, patient_name, current_form_data, full_transcript,
                   since_reset>>

\* a plausible slip: session.stop() returns without having suspended, so the
\* tasks created before it have not started when the transcript is read
manager_stop_extracts_unsuspended ==
    /\ prog = "manager"
    /\ manager_pc = "session.stop"
    /\ IF transcript_buffer # <<>>
       THEN /\ manager_pc' = "extract"
            /\ extractions_in_flight' = extractions_in_flight + 1
       ELSE /\ manager_pc' = "stopped"
            /\ UNCHANGED extractions_in_flight
    /\ last_event' = "stop"
    /\ UNCHANGED <<emitted, on_final_transcript_tasks, transcript_buffer,
                   _pending_extraction, _pending_suggestions, _extraction_task,
                   _suggestions_task, sleep_left, error_messages>>
    /\ UNCHANGED <<prog, otherProgs, scheduleHistory>>
    /\ UNCHANGED controlVars

\* session.stop() returns and stop() goes on to "Final extraction and
\* suggestions"; the tasks created before session.stop() awaited have started
manager_stop_extracts ==
    /\ prog = "manager"
    /\ manager_pc = "session.stop"
    /\ \A i \in DOMAIN on_final_transcript_tasks :
           on_final_transcript_tasks[i].pc # "created"
    /\ IF transcript_buffer # <<>>
       THEN /\ manager_pc' = "extract"
            /\ extractions_in_flight' = extractions_in_flight + 1
       ELSE /\ manager_pc' = "stopped"
            /\ UNCHANGED extractions_in_flight
    /\ last_event' = "stop"
    /\ UNCHANGED <<emitted, on_final_transcript_tasks, transcript_buffer,
                   _pending_extraction, _pending_suggestions, _extraction_task,
                   _suggestions_task, sleep_left, error_messages>>
    /\ UNCHANGED <<prog, otherProgs, scheduleHistory>>
    /\ UNCHANGED controlVars

\* the extract awaited by stop() returns (ok) or raises out of stop() (~ok)
manager_stop_extract_returns(ok) ==
    /\ prog = "manager"
    /\ manager_pc = "extract"
    /\ manager_pc' = IF ok THEN "generate_suggestions" ELSE "stopped"
    /\ extractions_in_flight' = extractions_in_flight - 1
    /\ last_event' = "stop"
    /\ UNCHANGED <<emitted, on_final_transcript_tasks, transcript_buffer,
                   _pending_extraction, _pending_suggestions, _extraction_task,
                   _suggestions_task, sleep_left, error_messages>>
    /\ UNCHANGED <<prog, otherProgs, scheduleHistory>>
    /\ current_form_data' = IF ok THEN transcript_buffer ELSE current_form_data
    /\ UNCHANGED <<session, session_state, full_transcript, since_reset>>

\* the generate_suggestions awaited by stop() returns and stop() ends
manager_stop_returns ==
    /\ prog = "manager"
    /\ manager_pc = "generate_suggestions"
    /\ manager_pc' = "stopped"
    /\ last_event' = "stop"
    /\ UNCHANGED <<emitted, on_final_transcript_tasks, transcript_buffer,
                   _pending_extraction, _pending_suggestions, _extraction_task,
                   _suggestions_task, sleep_left, extractions_in_flight,
                   error_messages>>
    /\ UNCHANGED <<prog, otherProgs, scheduleHistory>>
    /\ UNCHANGED controlVars

\* ---------------------------------------------------------------- client control
\* The methods of TranscriptionManager that transcription_websocket calls on
\* the client's control messages and audio frames.  The handler calls them
\* between two of its receives, so never while it is inside stop().

managerIdle == <<emitted, on_final_transcript_tasks, _pending_extraction,
                 _pending_suggestions, _extraction_task, _suggestions_task,
                 sleep_left, extractions_in_flight, error_messages>>

\* TranscriptionManager.reset().  (diarized_utterances, speaker_history and
\* current_suggestions are cleared with the buffer; started_at and the new
\* session_id are not modelled.)
reset ==
    /\ prog = "manager"
    /\ manager_pc \in {"recording", "stopped"}
    /\ transcript_buffer' = <<>>
    /\ current_form_data' = <<>>
    /\ is_recording' = FALSE
    /\ is_paused' = FALSE
    /\ patient_name' = "None"
    /\ since_reset' = "clean"
    /\ last_event' = "reset"
    /\ UNCHANGED <<manager_pc, managerIdle, session, full_transcript>>
    /\ UNCHANGED <<prog, otherProgs, scheduleHistory>>

\* TranscriptionManager.pause()
pause ==
    /\ prog = "manager"
    /\ manager_pc \in {"recording", "stopped"}
    /\ is_paused' = TRUE
    /\ last_event' = "paused"
    /\ UNCHANGED <<manager_pc, managerIdle, transcript_buffer, session,
                   is_recording, patient_name, current_form_data,
                   full_transcript, since_reset>>
    /\ UNCHANGED <<prog, otherProgs, scheduleHistory>>

\* TranscriptionManager.resume()
resume ==
    /\ prog = "manager"
    /\ manager_pc \in {"recording", "stopped"}
    /\ is_paused' = FALSE
    /\ last_event' = "resumed"
    /\ UNCHANGED <<manager_pc, managerIdle, transcript_buffer, session,
                   is_recording, patient_name, current_form_data,
                   full_transcript, since_reset>>
    /\ UNCHANGED <<prog, otherProgs, scheduleHistory>>

\* TranscriptionManager.send_audio(audio_data) and the session's send_audio it
\* awaits: the frame goes to the recogniser when there is a session and the
\* session runs with a client, as it does until stop()
send_audio ==
    /\ prog = "manager"
    /\ manager_pc \in {"recording", "stopped"}
    /\ last_event' = IF session # "None" /\ manager_pc = "recording"
                     THEN "audio_forwarded" ELSE "audio_dropped"
    /\ UNCHANGED <<managerVars, controlVars>>
    /\ UNCHANGED <<prog, otherProgs>>

\* ---------------------------------------------------------------- websocket
\* transcription_websocket (use-cases/06-medical-assistant/backend/main.py),
\* from the construction of its TranscriptionManager on.  An action is one
\* iteration of the receive loop, or the iteration that ends it.  No session
\* is ever attached (start() raises before it assigns one), so no utterance
\* reaches the manager and its transcript buffer stays empty.

\* messages the client sends in one connection
MaxMessages == 3

\* the names a set_patient message carries
PatientNames == {"p"}

managerRest == <<manager_pc, emitted, on_final_transcript_tasks,
                 _pending_extraction, _pending_suggestions, _extraction_task,
                 _suggestions_task, sleep_left, extractions_in_flight,
                 error_messages, scheduleHistory, session, full_transcript,
                 since_reset>>

socketOthers == <<clock, sessionVars, turnsVars, dialerVars, resolverVars,
                  historyVars, speakersVars>>

\* websocket.receive() returned a message (or raised) while the loop runs
Receives(event) ==
    /\ prog = "socket"
    /\ socket_pc = "receiving"
    /\ received < MaxMessages
    /\ received' = received + 1
    /\ last_event' = event
    /\ UNCHANGED <<prog, socketOthers, managerRest>>

\* send_message(msg_type, message=...): the send is attempted; its own
\* exceptions are printed and swallowed
send_message(msg_type, message) ==
    sent' = Append(sent, [type |-> msg_type, message |-> message])

\* an exception left the loop: it is printed (WebSocketDisconnect is not) and
\* manager.stop() runs, here without a session and over an empty buffer; the
\* handler returns
HandlerEnds ==
    /\ is_recording' = FALSE
    /\ is_paused' = FALSE
    /\ socket_pc' = "closed"
    /\ UNCHANGED <<patient_name, transcript_buffer, current_form_data, sent>>

\* a binary frame: manager.send_audio finds self.session None
receive_bytes ==
    /\ Receives("bytes")
    /\ session = "None"
    /\ UNCHANGED <<socket_pc, session_state, transcript_buffer,
                   current_form_data, sent>>

\* {"type": "start"}: manager.start() builds the TranscriptionService and
\* calls TranscriptionSession(...) with the keyword arguments
\* on_end_of_utterance and enable_diarization, which its __init__ does not
\* take: TypeError, before self.session or session_state is assigned; the
\* handler's "except Exception" ends the connection
receive_start ==
    /\ Receives("start")
    /\ HandlerEnds

\* {"type": "stop"}: manager.stop() without a session, over an empty buffer
receive_stop ==
    /\ Receives("stop")
    /\ session = "None" /\ transcript_buffer = <<>>
    /\ is_recording' = FALSE
    /\ is_paused' = FALSE
    /\ UNCHANGED <<socket_pc, patient_name, transcript_buffer,
                   current_form_data, sent>>

\* {"type": "pause"}
receive_pause ==
    /\ Receives("pause")
    /\ is_paused' = TRUE
    /\ send_message("paused", "")
    /\ UNCHANGED <<socket_pc, is_recording, patient_name, transcript_buffer,
                   current_form_data>>

\* {"type": "resume"}
receive_resume ==
    /\ Receives("resume")
    /\ is_paused' = FALSE
    /\ send_message("resumed", "")
    /\ UNCHANGED <<socket_pc, is_recording, patient_name, transcript_buffer,
                   current_form_data>>

\* {"type": "reset"}: manager.reset(), then send_message("reset_complete")
receive_reset ==
    /\ Receives("reset")
    /\ transcript_buffer' = <<>>
    /\ current_form_data' = <<>>
    /\ is_recording' = FALSE
    /\ is_paused' = FALSE
    /\ patient_name' = "None"
    /\ send_message("reset_complete", "")
    /\ UNCHANGED socket_pc

\* {"type": "set_patient", "name": name}
receive_set_patient(name) ==
    /\ Receives("set_patient")
    /\ patient_name' = name
    /\ send_message("patient_set", "")
    /\ UNCHANGED <<socket_pc, is_recording, is_paused, transcript_buffer,
                   current_form_data>>

\* {"type": "ping"}
receive_ping ==
    /\ Receives("ping")
    /\ send_message("pong", "")
    /\ UNCHANGED <<socket_pc, session_state, transcript_buffer,
                   current_form_data>>

\* {"type": "generate_soap"}: generate_soap_note() over an empty buffer
receive_generate_soap ==
    /\ Receives("generate_soap")
    /\ transcript_buffer = <<>>
    /\ send_message("error", "No transcript available for SOAP generation")
    /\ UNCHANGED <<socket_pc, session_state, transcript_buffer,
                   current_form_data>>

\* a JSON object of another type, or of none: no branch is taken
receive_other_type ==
    /\ Receives("other_type")
    /\ UNCHANGED <<socket_pc, session_state, transcript_buffer,
                   current_form_data, sent>>

\* a plausible slip: the decode error is left to the handler's outer except
receive_invalid_json_ends ==
    /\ Receives("invalid_json")
    /\ HandlerEnds

\* a text that json.loads rejects: JSONDecodeError, caught inside the loop
receive_invalid_json ==
    /\ Receives("invalid_json")
    /\ send_message("error", "Invalid JSON message")
    /\ UNCHANGED <<socket_pc, session_state, transcript_buffer,
                   current_form_data>>

\* a text that is JSON but no object (a number, a list): data.get raises
\* AttributeError, which only the outer "except Exception" catches
receive_json_non_object ==
    /\ Receives("json_non_object")
    /\ HandlerEnds

\* the client went away: WebSocketDisconnect (or the error of receiving
\* after the disconnect message) leaves the loop
receive_disconnect ==
    /\ Receives("disconnect")
    /\ HandlerEnds

\* ---------------------------------------------------------------- speakers file
\* save_speakers and load_known_speakers of the LiveKit voice assistant
\* (integrations/livekit/01-simple-voice-assistant/python/main.py).  A label
\* or an identifier is a sequence of one-character strings.

\* speakers in one GET_SPEAKERS result
MaxSpeakers == 2

Digits == {"0", "1", "2", "3", "4", "5", "6", "7", "8", "9"}

\* the value dict.get returns for a missing "label" key
NoLabelKey == <<"<", "n", "o", ">">>

\* labels of the speakers handed to save_speakers: reserved ones, one with a
\* trailing newline, near misses, an edited name, none
SpeakerLabels ==
    { <<>>, <<"S", "1">>, <<"S", "1", "2">>, <<"S", "1", "\n">>, <<"S">>,
      <<"S", "1", "a">>, <<"A", "\"">>,
      <<"S", "p", "e", "a", "k", "e", "r", "_", "1">>, NoLabelKey }

\* their speaker_identifiers
SpeakerIds == { <<>>, << <<"i", "d">> >>, << <<"i", "d">>, <<"\\">> >> }

RawSpeakers ==
    { [label |-> l, speaker_identifiers |-> ids] :
          l \in SpeakerLabels, ids \in SpeakerIds }

\* RESERVED_LABEL.match(label) for the pattern ^S\d+$ : "$" matches at the
\* end of the string and also before a newline that ends it
RESERVED_LABEL_match(label) ==
    LET core == IF label # <<>> /\ label[Len(label)] = "\n"
                THEN SubSeq(label, 1, Len(label) - 1) ELSE label
    IN /\ Len(core) >= 2
       /\ core[1] = "S"
       /\ \A i \in 2..Len(core) : core[i] \in Digits

RECURSIVE json_escape(_)
\* the characters of a string as json.dump writes them between the quotes
json_escape(str) ==
    IF str = <<>> THEN <<>>
    ELSE (CASE Head(str) = "\n" -> <<"\\", "n">>
            [] Head(str) = "\"" -> <<"\\", "\"">>
            [] Head(str) = "\\" -> <<"\\", "\\">>
            [] OTHER -> <<Head(str)>>) \o json_escape(Tail(str))

RECURSIVE json_unescape(_)
\* the string json.load reads from the characters between the quotes
json_unescape(chars) ==
    IF chars = <<>> THEN <<>>
    ELSE IF Head(chars) = "\\" /\ Len(chars) >= 2
         THEN <<IF chars[2] = "n" THEN "\n" ELSE chars[2]>>
                  \o json_unescape(Tail(Tail(chars)))
         ELSE <<Head(chars)>> \o json_unescape(Tail(chars))

\* json.dump(data, f, indent=2): the document, one object an entry, its
\* strings as JSON string literals
json_dump(data) ==
    [k \in DOMAIN data |->
        [label |-> <<"\"">> \o json_escape(data[k].label) \o <<"\"">>,
         speaker_identifiers |->
             [j \in DOMAIN data[k].speaker_identifiers |->
                 <<"\"">> \o json_escape(data[k].speaker_identifiers[j])
                     \o <<"\"">>]]]

\* a JSON string literal read back
json_string(literal) == json_unescape(SubSeq(literal, 2, Len(literal) - 1))

\* json.load(f)
json_load(document) ==
    [k \in DOMAIN document |->
        [label |-> json_string(document[k].label),
         speaker_identifiers |->
             [j \in DOMAIN document[k].speaker_identifiers |->
                 json_string(document[k].speaker_identifiers[j])]]]

\* a plausible slip: reserved labels are written as they are
save_entry_as_is(speaker) ==
    LET label == IF speaker.label = NoLabelKey THEN <<>> ELSE speaker.label
        ids == speaker.speaker_identifiers
    IN IF label # <<>> /\ ids # <<>>
       THEN << [label |-> label, speaker_identifiers |-> ids] >>
       ELSE <<>>

\* one turn of save_speakers' loop: what it appends to data for `speaker`
save_entry(speaker) ==
    LET label == IF speaker.label = NoLabelKey THEN <<>> ELSE speaker.label
        ids == speaker.speaker_identifiers
    IN IF label # <<>> /\ ids # <<>>
       THEN << [label |-> IF RESERVED_LABEL_match(label)
                          THEN <<"S", "p", "e", "a", "k", "e", "r", "_">>
                                   \o Tail(label)
                          ELSE label,
                speaker_identifiers |-> ids] >>
       ELSE <<>>

RECURSIVE save_data(_)
\* the list `data` save_speakers builds
save_data(speakers) ==
    IF speakers = <<>> THEN <<>>
    ELSE save_entry(Head(speakers)) \o save_data(Tail(speakers))

RECURSIVE load_filter(_)
\* the list comprehension of load_known_speakers
load_filter(data) ==
    IF data = <<>> THEN <<>>
    ELSE LET entry == Head(data)
         IN IF /\ entry.label # <<>>
               /\ entry.speaker_identifiers # <<>>
               /\ ~RESERVED_LABEL_match(entry.label)
            THEN <<entry>> \o load_filter(Tail(data))
            ELSE load_filter(Tail(data))

speakersOthers == <<clock, sessionVars, turnsVars, dialerVars, resolverVars,
                    historyVars, managerVars, controlVars, socketVars>>

\* save_speakers(raw_speakers), called once with the GET_SPEAKERS result
save_speakers ==
    /\ prog = "speakers"
    /\ last_event \in {"none", "load"}
    /\ written = <<>>
    /\ LET data == save_data(raw_speakers)
       IN IF data # <<>>
          THEN /\ speakers_file' = <<json_dump(data)>>
               /\ written' = data
          ELSE UNCHANGED <<speakers_file, written>>
    /\ last_event' = "save"
    /\ UNCHANGED <<raw_speakers, known_speakers>>
    /\ UNCHANGED <<prog, speakersOthers>>

\* load_known_speakers(), called when a session begins
load_known_speakers ==
    /\ prog = "speakers"
    /\ last_event \in {"none", "save"}
    /\ known_speakers' = IF speakers_file = <<>> THEN <<>>
                         ELSE load_filter(json_load(speakers_file[1]))
    /\ last_event' = "load"
    /\ UNCHANGED <<raw_speakers, speakers_file, written>>
    /\ UNCHANGED <<prog, speakersOthers>>

\* ---------------------------------------------------------------- specification
\* the objects as their constructors leave them
Constructed ==
    /\ clock = 0
    /\ session_pc = "constructed"
    /\ _running = FALSE
    /\ _client = FALSE
    /\ _utterance_texts = <<>>
    /\ _utterance_speakers = <<>>
    /\ _utterance_start = 0
    /\ _utterance_end = 0
    /\ on_final_tasks = <<>>
    /\ on_error_calls = 0
    /\ on_partial_tasks = <<>>
    /\ current_utterance = <<>>
    /\ utterance_start_time = <<>>
    /\ utterances = <<>>
    /\ partial_prints = <<>>
    /\ current_turn_segments = <<>>
    /\ response_tasks = <<>>
    /\ response_pc = <<>>
    /\ conversation_history = <<>>
    /\ is_connected = TRUE
    /\ speak_pc = "idle"
    /\ tts_chunks = <<>>
    /\ pcm_buffer = <<>>
    /\ media_sent = <<>>
    /\ resolver_out = <<>>
    /\ turn = EmptyTurn
    /\ turns = <<>>
    /\ last_turn = NoTurn
    /\ last_event = "none"
    /\ manager_pc = "recording"
    /\ emitted = 0
    /\ on_final_transcript_tasks = <<>>
    /\ transcript_buffer = <<>>
    /\ _pending_extraction = FALSE
    /\ _pending_suggestions = FALSE
    /\ _extraction_task = "None"
    /\ _suggestions_task = "None"
    /\ sleep_left = 0
    /\ extractions_in_flight = 0
    /\ error_messages = 0
    /\ schedule_calls = 0
    /\ since_schedule = QuietPeriod
    /\ countdown_calls = 0
    /\ created_age = QuietPeriod + 1
    /\ countdowns = 0
    /\ runs = 0
    /\ burst_runs = 0
    /\ raised = 0
    /\ is_paused = FALSE
    /\ patient_name = "None"
    /\ current_form_data = <<>>
    /\ full_transcript = <<>>
    /\ since_reset = "none"
    /\ socket_pc = "receiving"
    /\ received = 0
    /\ sent = <<>>
    /\ speakers_file = <<>>
    /\ written = <<>>
    /\ known_speakers = <<>>

Init ==
    /\ prog \in {"session", "turns", "dialer", "resolver"}
    /\ raw_speakers = <<>>
    /\ session = "None"
    /\ is_recording = FALSE
    /\ resolver_results \in IF prog = "resolver"
                            THEN SeqsUpTo(ResultKinds, MaxResults) ELSE {<<>>}
    /\ Constructed

Next ==
    \/ \E ok \in BOOLEAN : start(ok)
    \/ \E t \in Transcripts, r \in SeqsUpTo(WordKinds, MaxWords) :
           on_final(AddTranscript(t, r))
    \/ \E t \in Transcripts, r \in PartialResults :
           on_partial(AddTranscript(t, r))
    \/ \E e \in EouTimes : on_eou([end_time |-> e])
    \/ stop
    \/ \E t \in Transcripts : handle_partial(AddTranscript(t, <<>>))
    \/ \E t \in Transcripts : handle_transcript(AddTranscript(t, <<>>))
    \/ \E e \in EouTimes : handle_end_of_utterance([end_of_utterance_time |-> e])
    \/ \E ts \in SeqsUpTo(SegmentSamples, MaxSegs) :
           on_segment([segments |-> [i \in DOMAIN ts |-> [text |-> ts[i]]]])
    \/ on_end_of_turn([message |-> "EndOfTurn"])
    \/ resolve

Spec == Init /\ [][Next]_vars

\* the manager while it records, with its session attached
ManagerInit ==
    /\ raw_speakers = <<>>
    /\ prog = "manager"
    /\ session = "attached"
    /\ is_recording = TRUE
    /\ resolver_results = <<>>
    /\ Constructed

ManagerNext ==
    \/ create_on_final_task
    \/ on_final_transcript_begins
    \/ on_final_transcript_schedules
    \/ Tick
    \/ _debounced_extraction_wakes
    \/ \E ok \in BOOLEAN : _debounced_extraction_returns(ok)
    \/ _generate_suggestions_returns
    \/ \E flushed \in BOOLEAN : manager_stop_begins(flushed)
    \/ manager_stop_extracts
    \/ \E ok \in BOOLEAN : manager_stop_extract_returns(ok)
    \/ manager_stop_returns

ManagerSpec == ManagerInit /\ [][ManagerNext]_vars

\* the same manager with a client that also pauses, resumes, resets and sends
\* audio
ControlNext ==
    \/ ManagerNext
    \/ reset
    \/ pause
    \/ resume
    \/ send_audio

ControlSpec == ManagerInit /\ [][ControlNext]_vars

\* one call of the outbound dialer, with the response tasks its turns start
CallInit ==
    /\ raw_speakers = <<>>
    /\ prog = "dialer"
    /\ session = "None"
    /\ is_recording = FALSE
    /\ resolver_results = <<>>
    /\ Constructed

CallNext ==
    \/ \E ts \in SeqsUpTo(SegmentSamples, MaxSegs) :
           on_segment([segments |-> [i \in DOMAIN ts |-> [text |-> ts[i]]]])
    \/ on_end_of_turn([message |-> "EndOfTurn"])
    \/ generate_response_begins
    \/ \E response \in Responses : generate_response_replies(response)
    \/ generate_response_returns
    \/ disconnect

CallSpec == CallInit /\ [][CallNext]_vars

\* one call of speak() on a call that may be disconnected meanwhile
SpeakNext ==
    \/ speak_begins
    \/ \E n \in TtsChunkSizes : speak_receives(n)
    \/ speak_sent
    \/ speak_paced
    \/ speak_stream_ends
    \/ disconnect

SpeakSpec == CallInit /\ [][SpeakNext]_vars

\* the speakers file over a first session, which saves, and the next, which
\* loads
SpeakersInit ==
    /\ prog = "speakers"
    /\ raw_speakers \in SeqsUpTo(RawSpeakers, MaxSpeakers)
    /\ session = "None"
    /\ is_recording = FALSE
    /\ resolver_results = <<>>
    /\ Constructed

SpeakersNext ==
    \/ save_speakers
    \/ load_known_speakers

SpeakersSpec == SpeakersInit /\ [][SpeakersNext]_vars

\* the websocket endpoint as a client drives it
SocketInit ==
    /\ raw_speakers = <<>>
    /\ prog = "socket"
    /\ session = "None"
    /\ is_recording = FALSE
    /\ resolver_results = <<>>
    /\ Constructed

SocketNext ==
    \/ receive_bytes
    \/ receive_start
    \/ receive_stop
    \/ receive_pause
    \/ receive_resume
    \/ receive_reset
    \/ \E name \in PatientNames : receive_set_patient(name)
    \/ receive_ping
    \/ receive_generate_soap
    \/ receive_other_type
    \/ receive_invalid_json
    \/ receive_json_non_object
    \/ receive_disconnect

SocketSpec == SocketInit /\ [][SocketNext]_vars

\* the event loop runs every task that is ready, a sleep ends, and the calls
\* awaited return or raise; the session and the client owe nothing
ManagerFairSpec ==
    /\ ManagerSpec
    /\ WF_vars(on_final_transcript_begins)
    /\ WF_vars(on_final_transcript_schedules)
    /\ WF_vars(Tick)
    /\ WF_vars(_debounced_extraction_wakes)
    /\ WF_vars(\E ok \in BOOLEAN : _debounced_extraction_returns(ok))
    /\ WF_vars(_generate_suggestions_returns)
    /\ WF_vars(manager_stop_extracts)
    /\ WF_vars(\E ok \in BOOLEAN : manager_stop_extract_returns(ok))
    /\ WF_vars(manager_stop_returns)

\* ---------------------------------------------------------------- properties
\* the texts handed to the final-utterance consumer so far, in order
EmittedTexts ==
    CASE prog = "session" ->
             [k \in DOMAIN on_final_tasks |-> on_final_tasks[k].text]
      [] prog = "turns" -> [k \in DOMAIN utterances |-> utterances[k].text]
      [] prog = "dialer" -> response_tasks
      [] OTHER -> <<>>

Stripped(texts) == [i \in DOMAIN texts |-> strip(texts[i])]

RECURSIVE Flatten(_)
Flatten(seqs) == IF seqs = <<>> THEN <<>> ELSE Head(seqs) \o Flatten(Tail(seqs))

\* the session handed over an utterance for the turn completed last
SessionEmittedLastTurn ==
    /\ prog = "session"
    /\ on_final_tasks # <<>>
    /\ Len(on_final_tasks) = Len(turns)

LastUtterance == on_final_tasks[Len(on_final_tasks)]

\* C1 as stated: the text of every emitted utterance is the texts of the
\* fragments accepted in its turn, as received, joined by one space.
C1_TextIsJoinOfReceivedTexts ==
    \A k \in DOMAIN EmittedTexts :
        /\ k \in DOMAIN turns
        /\ (\A i \in DOMAIN turns[k] : strip(turns[k][i]) # <<>>)
               => EmittedTexts[k] = join(turns[k])

\* C1 amended: the session and the turn-detection example join the fragments'
\* texts after stripping the whitespace around each; the dialer joins the
\* segment texts as received.  In arrival order, with one space between.
C1_TextIsJoinOfStrippedTexts ==
    \A k \in DOMAIN EmittedTexts :
        /\ k \in DOMAIN turns
        /\ EmittedTexts[k] = IF prog = "dialer" THEN join(turns[k])
                             ELSE join(Stripped(turns[k]))

\* a session utterance built from two fragments, one with whitespace around it
C1_Witness ==
    /\ SessionEmittedLastTurn
    /\ Len(last_turn.texts) = 2
    /\ \E i \in 1..2 : strip(last_turn.texts[i]) # last_turn.texts[i]
    /\ last_turn.texts[1] # last_turn.texts[2]

\* C2: in the session every end of turn or flush that finds a pending fragment
\* hands over exactly one utterance, made of exactly the fragments of that
\* turn, and empties the pending list: the pending list always holds exactly
\* the fragments accepted since the last end of turn, so no fragment is in two
\* utterances.
C2_OneUtterancePerTurn ==
    prog = "session" =>
        /\ Len(on_final_tasks) = Len(turns)
        /\ \A k \in DOMAIN on_final_tasks :
               on_final_tasks[k].text = join(Stripped(turns[k]))
        /\ _utterance_texts = Stripped(turn.texts)
        /\ (last_event \in {"eou", "stop"} /\ _running) => _utterance_texts = <<>>

\* two turns were completed, the second by an end of turn that emptied the
\* pending list
C2_Witness ==
    /\ prog = "session"
    /\ Len(on_final_tasks) = 2
    /\ last_turn.by = "eou"
    /\ last_event = "eou"
    /\ _utterance_texts = <<>>

\* C3: an end of turn that finds nothing pending hands over nothing and
\* changes nothing, in the session, the turn-detection example and the dialer.
C3_EmptyEndOfTurnIsNoOp ==
    [][ /\ ( /\ _utterance_texts = <<>>
             /\ \E e \in EouTimes : on_eou([end_time |-> e]) )
           => UNCHANGED <<sessionVars, clock, historyVars>>
        /\ ( /\ current_utterance = <<>>
             /\ \E e \in EouTimes :
                    handle_end_of_utterance([end_of_utterance_time |-> e]) )
           => UNCHANGED <<turnsVars, clock, historyVars>>
        /\ ( /\ current_turn_segments = <<>>
             /\ on_end_of_turn([message |-> "EndOfTurn"]) )
           => UNCHANGED <<dialerVars, clock, historyVars>>
      ]_vars

\* a running session that just handled an end of turn with nothing pending
\* and nothing handed over
C3_Witness ==
    /\ prog = "session"
    /\ _running
    /\ last_event = "eou"
    /\ clock > 0
    /\ on_final_tasks = <<>>
    /\ _utterance_texts = <<>>

\* C4 as stated: from every state with a pending fragment, _flush_utterance
\* builds the utterance on_eou would build and leaves the accumulator as
\* on_eou would leave it.  (Fails: _flush_utterance keeps _utterance_start and
\* _utterance_end, on_eou resets them to 0.0.)
C4_FlushSameAsEndOfTurn ==
    (prog = "session" /\ _running /\ _utterance_texts # <<>>) =>
        /\ flush_diarized = on_eou_diarized
        /\ flush_cleared = on_eou_cleared

\* C5: once the session is stopped nothing is pending, and the utterances
\* handed over hold every fragment the session accepted, in order; a stop
\* that found fragments pending handed them over as the last utterance.
C5_StopFlushesPending ==
    (prog = "session" /\ session_pc = "stopped") =>
        /\ ~_running
        /\ _utterance_texts = <<>>
        /\ _utterance_speakers = <<>>
        /\ join(EmittedTexts) = join(Stripped(Flatten(turns) \o turn.texts))
        /\ last_turn.by = "flush" =>
               /\ on_final_tasks # <<>>
               /\ LastUtterance.text = join(Stripped(last_turn.texts))
               /\ LastUtterance.is_partial = FALSE

\* the session was stopped with two fragments pending and no end of turn
C5_Witness ==
    /\ prog = "session"
    /\ session_pc = "stopped"
    /\ last_event = "stop"
    /\ last_turn.by = "flush"
    /\ Len(last_turn.texts) = 2
    /\ Len(on_final_tasks) = 1

\* the end time the turn-detection example used for its last utterance
TurnsEndTime == utterances[Len(utterances)].duration + last_turn.first_start[1]

TurnsEmittedLastTurn ==
    /\ prog = "turns"
    /\ utterances # <<>>
    /\ Len(utterances) = Len(turns)

\* C6 as stated: the end time of an utterance is the end-of-turn timestamp
\* when the event carries one and the end time of the last accepted fragment
\* otherwise.
C6_EndTimeExplicitElseLastFragment ==
    /\ SessionEmittedLastTurn =>
           LastUtterance.end_time = IF last_turn.eou # <<>> THEN last_turn.eou[1]
                                    ELSE last_turn.last_end[1]
    /\ TurnsEmittedLastTurn =>
           TurnsEndTime = IF last_turn.eou # <<>> THEN last_turn.eou[1]
                          ELSE last_turn.last_end[1]

\* C6 amended: in the session the end time is always the end time of the last
\* accepted fragment of the turn, whatever the end-of-utterance message holds;
\* the turn-detection example uses the message's end_of_utterance_time when
\* the message has one and 0 when it has none.
C6_EndTimePerProgram ==
    /\ SessionEmittedLastTurn =>
           LastUtterance.end_time = last_turn.last_end[1]
    /\ TurnsEmittedLastTurn =>
           TurnsEndTime = IF last_turn.eou # <<>> THEN last_turn.eou[1] ELSE 0

\* a session utterance of two fragments closed by an end of utterance whose
\* timestamp is later than the last fragment's end
C6_Witness ==
    /\ SessionEmittedLastTurn
    /\ last_turn.by = "eou"
    /\ Len(last_turn.texts) = 2
    /\ last_turn.eou # <<>>
    /\ last_turn.eou # last_turn.last_end

\* some word of the turn completed last carried a speaker label
LastTurnHasVotes == \E l \in Labels : last_turn.words[l] > 0

\* C7 as stated: the speaker of an utterance is a label that the greatest
\* number of words of the turn carry, counted over the words of all its
\* fragments.  (Fails: the session votes once per fragment, with each
\* fragment's own dominant speaker.)
C7_SpeakerHasMostWords ==
    (SessionEmittedLastTurn /\ LastTurnHasVotes) =>
        /\ LastUtterance.speaker \in Labels
        /\ \A l \in Labels :
               last_turn.words[LastUtterance.speaker] >= last_turn.words[l]

\* the words among `results` that carry a speaker label, as their labels
LabelledWords(results) ==
    LET idx == { i \in DOMAIN results : \E l \in Labels : WordVotes(<<results[i]>>, l) = 1 }
        nth[n \in 0..Len(results)] ==
            IF n = 0 THEN <<>>
            ELSE IF n \in idx
                 THEN Append(nth[n-1], results[n].alternatives[1].speaker)
                 ELSE nth[n-1]
    IN nth[Len(results)]

Occurrences(labels, l, upto) ==
    Cardinality({ i \in 1..upto : labels[i] = l })

MaxOccurrences(labels) ==
    CHOOSE m \in 0..Len(labels) :
        /\ \A l \in Labels : Occurrences(labels, l, Len(labels)) <= m
        /\ \E l \in Labels : Occurrences(labels, l, Len(labels)) = m

\* several labels have the highest count
Tied(labels) ==
    Cardinality({ l \in Labels :
                    Occurrences(labels, l, Len(labels)) = MaxOccurrences(labels) }) > 1

\* the label whose count is first to reach the maximum in a scan of `labels`
FirstToReachMax(labels) ==
    LET at == CHOOSE i \in 1..Len(labels) :
                  /\ Occurrences(labels, labels[i], i) = MaxOccurrences(labels)
                  /\ \A j \in 1..(i-1) :
                         Occurrences(labels, labels[j], j) < MaxOccurrences(labels)
    IN labels[at]

\* the label of highest count whose first occurrence in `labels` is earliest
FirstSeenAmongMax(labels) ==
    LET at == CHOOSE i \in 1..Len(labels) :
                  /\ Occurrences(labels, labels[i], Len(labels)) = MaxOccurrences(labels)
                  /\ \A j \in 1..(i-1) :
                         Occurrences(labels, labels[j], Len(labels)) < MaxOccurrences(labels)
    IN labels[at]

\* the resolver ran alone on a list with at least one labelled word
ResolverRanOnVotes ==
    /\ prog = "resolver"
    /\ resolver_out # <<>>
    /\ LabelledWords(resolver_results) # <<>>

\* C8: the resolver returns a label whose count among the labelled words is
\* not exceeded by any other label's; results that are not words and words
\* without a speaker label are not counted.
C8_ResolverReturnsMostFrequent ==
    ResolverRanOnVotes =>
        /\ resolver_out[1] \in Labels
        /\ \A l \in Labels :
               WordVotes(resolver_results, resolver_out[1])
                   >= WordVotes(resolver_results, l)

\* the resolver picked S2 over S1 on a list that also holds a result that is
\* no word and a word without a label
C8_Witness ==
    /\ ResolverRanOnVotes
    /\ resolver_out = <<"S2">>
    /\ WordVotes(resolver_results, "S1") = 1
    /\ WordVotes(resolver_results, "S2") = 2
    /\ \E i \in DOMAIN resolver_results : resolver_results[i].type # "word"

\* C9 as stated: on a tie the resolver returns the label that is first to
\* reach the maximum count in a scan of the input.
C9_TieGoesToFirstToReachMax ==
    (ResolverRanOnVotes /\ Tied(LabelledWords(resolver_results))) =>
        resolver_out[1] = FirstToReachMax(LabelledWords(resolver_results))

\* C9 amended: on a tie the resolver returns, among the labels of highest
\* count, the one that occurs first in the input; the session breaks a tie
\* between its per-fragment votes the same way, at an end of utterance and at
\* a flush.
C9_TieGoesToFirstSeen ==
    /\ (ResolverRanOnVotes /\ Tied(LabelledWords(resolver_results))) =>
           resolver_out[1] = FirstSeenAmongMax(LabelledWords(resolver_results))
    /\ (prog = "session" /\ _utterance_speakers # <<>>
          /\ Tied(_utterance_speakers)) =>
           /\ on_eou_diarized.speaker = FirstSeenAmongMax(_utterance_speakers)
           /\ flush_diarized.speaker = FirstSeenAmongMax(_utterance_speakers)

\* the resolver ran on a tie whose first-seen label is not the first to reach
\* the maximum count
C9_Witness ==
    /\ ResolverRanOnVotes
    /\ Tied(LabelledWords(resolver_results))
    /\ FirstToReachMax(LabelledWords(resolver_results))
           # FirstSeenAmongMax(LabelledWords(resolver_results))
    /\ resolver_out[1] = FirstSeenAmongMax(LabelledWords(resolver_results))

\* C10 as stated: the resolver returns "UNKNOWN" when no word carries a
\* speaker label, and an utterance of a turn without a speaker vote has the
\* speaker "UNKNOWN".
C10_SentinelIsUNKNOWN ==
    /\ (prog = "resolver" /\ resolver_out # <<>>
          /\ LabelledWords(resolver_results) = <<>>) =>
           resolver_out[1] = "UNKNOWN"
    /\ (SessionEmittedLastTurn /\ ~LastTurnHasVotes) =>
           LastUtterance.speaker = "UNKNOWN"

\* C10 amended: the sentinel is "UNK", from the resolver and in the utterance.
C10_SentinelIsUNK ==
    /\ (prog = "resolver" /\ resolver_out # <<>>
          /\ LabelledWords(resolver_results) = <<>>) =>
           resolver_out[1] = "UNK"
    /\ (SessionEmittedLastTurn /\ ~LastTurnHasVotes) =>
           LastUtterance.speaker = "UNK"

\* the session handed over an utterance of a turn of two fragments in which
\* no word carried a speaker label
C10_Witness ==
    /\ SessionEmittedLastTurn
    /\ ~LastTurnHasVotes
    /\ Len(last_turn.texts) = 2
    /\ LastUtterance.speaker = "UNK"

\* ---------------------------------------------------------------- debounce
\* C11 as stated, in the half of it that needs no execution to happen: a
\* burst of schedule calls, each less than a quiet period after the one
\* before, never results in more than one execution of the debounced
\* extraction.
C11_BurstRunsOnce ==
    (prog = "manager" /\ schedule_calls > 0) => burst_runs <= 1

\* C11 amended: the schedule calls made from the call that creates a
\* countdown until that countdown ends result in exactly one execution, begun
\* when the countdown ends; a call made when no countdown runs and no
\* execution is in flight creates the next countdown, so that a burst that
\* outlasts one countdown is executed more than once, and a call made while
\* an execution is in flight creates none.
C11_OneRunPerCountdown ==
    prog = "manager" =>
        /\ countdowns <= schedule_calls
        /\ _extraction_task = "None" => (countdowns = 0 /\ runs = 0)
        /\ _extraction_task = "sleeping" =>
               (runs = countdowns - 1 /\ countdown_calls >= 1)
        /\ _extraction_task \in {"extracting", "done"} => runs = countdowns

\* three schedule calls were made during one countdown and the one execution
\* for them has just begun
C11_Witness ==
    /\ prog = "manager"
    /\ last_event = "debounced_run"
    /\ schedule_calls = 3
    /\ countdown_calls = 3
    /\ runs = 1

\* C12 as stated: a schedule call that arrives while the debounced extraction
\* is in flight is followed by a fresh execution, unless a further schedule
\* call is made or the manager is stopped first.
C12_CallInFlightIsServed ==
    \A n, k \in 0..(MaxCalls + 1) :
        (prog = "manager" /\ _pending_extraction
           /\ _extraction_task = "extracting"
           /\ runs = n /\ schedule_calls = k)
            ~> (runs > n \/ schedule_calls > k \/ manager_pc # "recording")

\* C13 as stated: at most one call of extraction_service.extract is in
\* flight, the one made by stop() included.
C13_OneExtractionInFlight ==
    prog = "manager" => extractions_in_flight <= 1

\* C14 as stated: the debounced extraction never begins less than a quiet
\* period after the most recent schedule call before it.
C14_RunsQuietPeriodAfterLastCall ==
    (prog = "manager" /\ last_event = "debounced_run") =>
        since_schedule = QuietPeriod

\* C14 amended: the countdown is started by the schedule call that creates
\* the task and by no later one: a countdown that runs ends one quiet period
\* after that call whatever calls follow, and the debounced extraction begins
\* one quiet period after it.
C14_RunsQuietPeriodAfterCreatingCall ==
    prog = "manager" =>
        /\ _extraction_task = "sleeping" =>
               sleep_left + created_age = QuietPeriod
        /\ last_event = "debounced_run" => created_age = QuietPeriod

\* the debounced extraction has just begun, less than a quiet period after
\* the last of the two or more calls of its countdown
C14_Witness ==
    /\ prog = "manager"
    /\ last_event = "debounced_run"
    /\ countdown_calls >= 2
    /\ since_schedule < QuietPeriod
    /\ created_age = QuietPeriod

\* C15 as stated: once stop() has returned no debounced extraction begins.
C15_NoRunAfterStop ==
    ~(prog = "manager" /\ manager_pc = "stopped"
        /\ last_event = "debounced_run")

sessionAll == <<sessionVars, historyVars>>

\* C17: a final transcript, a partial transcript or an end of utterance
\* delivered to a session that was stopped changes nothing of it and hands
\* nothing over.
C17_EventsAfterStopAreNoOps ==
    [][ ( /\ prog = "session"
          /\ session_pc = "stopped"
          /\ \/ \E t \in Transcripts, r \in SeqsUpTo(WordKinds, MaxWords) :
                    on_final(AddTranscript(t, r))
             \/ \E t \in Transcripts, r \in PartialResults :
                    on_partial(AddTranscript(t, r))
             \/ \E e \in EouTimes : on_eou([end_time |-> e]) )
        => UNCHANGED sessionAll
      ]_vars

\* a stopped session, whose stop flushed a turn, has just been handed a final
\* transcript
C17_Witness ==
    /\ prog = "session"
    /\ session_pc = "stopped"
    /\ last_turn.by = "flush"
    /\ last_event = "final"
    /\ Len(on_final_tasks) = 1

\* C18 as stated: the pending list is empty exactly when the turn start time
\* is unset.  In the session, where the start time is a number reset to 0.0,
\* that is: 0.0 when the list is empty and the start of the turn's first
\* fragment when it is not; in the turn-detection example unset is None.
\* (Fails in the session: _flush_utterance empties the list and keeps the
\* start time.)
C18_PendingEmptyIffStartUnset ==
    /\ prog = "session" =>
           /\ _utterance_texts = <<>> => _utterance_start = 0
           /\ _utterance_texts # <<>> => <<_utterance_start>> = turn.first_start
    /\ prog = "turns" =>
           (current_utterance = <<>> <=> utterance_start_time = <<>>)

\* C19 as stated: a partial transcript changes nothing of the accumulator; it
\* is forwarded to the live preview when its text is not blank and is not
\* forwarded when its text is empty or whitespace only.
C19_PartialForwardsNonBlankOnly ==
    [][ /\ \A t \in Transcripts, r \in PartialResults :
               on_partial(AddTranscript(t, r)) =>
                   /\ UNCHANGED <<accumulator, on_final_tasks, historyVars>>
                   /\ strip(t) = <<>> => UNCHANGED on_partial_tasks
        /\ \A t \in Transcripts :
               handle_partial(AddTranscript(t, <<>>)) =>
                   /\ UNCHANGED <<current_utterance, utterance_start_time,
                                  utterances, historyVars>>
                   /\ strip(t) = <<>> => UNCHANGED partial_prints
      ]_vars

\* C19 amended: a partial transcript changes nothing of the accumulator.  The
\* running session hands a partial whose text is not blank to on_partial, with
\* the text as received, and drops a blank one; the session that is not
\* running drops every partial.  The turn-detection example prints every
\* partial whose text is not empty, a whitespace-only one included.
C19_PartialNeverTouchesAccumulator ==
    [][ /\ \A t \in Transcripts, r \in PartialResults :
               on_partial(AddTranscript(t, r)) =>
                   /\ UNCHANGED <<accumulator, on_final_tasks, session_pc,
                                  _running, _client, on_error_calls,
                                  historyVars>>
                   /\ on_partial_tasks' =
                          IF _running /\ strip(t) # <<>>
                          THEN Append(on_partial_tasks,
                                      [text |-> t,
                                       speaker |-> _get_dominant_speaker(r),
                                       start_time |-> clock,
                                       end_time |-> clock + 1,
                                       is_partial |-> TRUE])
                          ELSE on_partial_tasks
        /\ \A t \in Transcripts :
               handle_partial(AddTranscript(t, <<>>)) =>
                   /\ UNCHANGED <<current_utterance, utterance_start_time,
                                  utterances, historyVars>>
                   /\ partial_prints' = IF t # <<>>
                                        THEN Append(partial_prints, t)
                                        ELSE partial_prints
      ]_vars

\* the turn-detection example, with a fragment pending, has just printed a
\* whitespace-only partial
C19_Witness ==
    /\ prog = "turns"
    /\ last_event = "partial"
    /\ current_utterance # <<>>
    /\ partial_prints # <<>>
    /\ partial_prints[Len(partial_prints)] = <<" ">>

\* C20 as stated: a final transcript whose text is empty or whitespace only
\* changes nothing of the accumulator, in the session and in the
\* turn-detection example.  (Fails in the turn-detection example, which tests
\* the text before stripping it.)
C20_BlankFinalIsNoOp ==
    [][ /\ \A t \in Transcripts, r \in SeqsUpTo(WordKinds, MaxWords) :
               (strip(t) = <<>> /\ on_final(AddTranscript(t, r))) =>
                   UNCHANGED <<accumulator, on_final_tasks>>
        /\ \A t \in Transcripts :
               (strip(t) = <<>> /\ handle_transcript(AddTranscript(t, <<>>))) =>
                   UNCHANGED <<current_utterance, utterance_start_time,
                               utterances>>
      ]_vars

\* ---------------------------------------------------------------- start time
\* C21: the start time of an emitted utterance is the start time of the first
\* fragment accepted in its turn: while a turn is open the tracked start time
\* stays that of its first fragment whatever follows, and the utterance built
\* at the end of the turn carries it (the turn-detection example emits it as
\* duration = end time - start time), never the start of an earlier turn.
C21_StartIsFirstFragmentStart ==
    /\ (prog = "session" /\ _utterance_texts # <<>>) =>
           _utterance_start = turn.first_start[1]
    /\ SessionEmittedLastTurn =>
           LastUtterance.start_time = last_turn.first_start[1]
    /\ (prog = "turns" /\ current_utterance # <<>>) =>
           utterance_start_time = turn.first_start
    /\ TurnsEmittedLastTurn =>
           utterances[Len(utterances)].duration =
               (IF last_turn.eou # <<>> THEN last_turn.eou[1] ELSE 0)
                   - last_turn.first_start[1]

\* the session emitted a second utterance whose only fragment began after the
\* first turn was handed over
C21_Witness ==
    /\ SessionEmittedLastTurn
    /\ Len(on_final_tasks) = 2
    /\ last_turn.first_start = <<1>>
    /\ on_final_tasks[1].start_time = 0

\* ---------------------------------------------------------------- transcript buffer
\* the utterances the session emitted so far, in the order of emission
EmittedInOrder == [k \in 1..emitted |-> k]

C25_BufferInEmissionOrder ==
    prog = "manager" =>
        /\ Len(transcript_buffer) <= emitted
        /\ transcript_buffer = SubSeq(EmittedInOrder, 1, Len(transcript_buffer))

\* three utterances are in the buffer while the callbacks of the first and
\* of the last are both still awaiting their send
C25_Witness ==
    /\ prog = "manager"
    /\ Len(transcript_buffer) = 3
    /\ \E i, j \in DOMAIN on_final_transcript_tasks :
           /\ on_final_transcript_tasks[i].data = 1
           /\ on_final_transcript_tasks[j].data = 3
           /\ on_final_transcript_tasks[i].pc = "sending"
           /\ on_final_transcript_tasks[j].pc = "sending"

\* ---------------------------------------------------------------- reset and pause
\* C23: from a reset() until the next final utterance reaches the manager,
\* current_form_data stays empty (the form_update of an extraction is sent
\* with the data it has just assigned, so none carries data extracted from
\* the transcript of before the reset).
C23_FormDataEmptyAfterReset ==
    (prog = "manager" /\ since_reset = "clean") => current_form_data = <<>>

C22_StartLeavesSessionRecording ==
    (prog = "socket" /\ last_event = "start") =>
        /\ session # "None"
        /\ is_recording
        /\ socket_pc = "receiving"

\* C29: the iteration that receives a text which is not valid JSON sends one
\* "error" message and nothing else, changes nothing of the manager (session,
\* session state, transcript buffer, form data, extraction tasks) and leaves
\* the loop receiving.
C29_InvalidJsonOnlySendsError ==
    [][(prog = "socket" /\ last_event' = "invalid_json"
        /\ received' = received + 1) =>
           /\ sent' = Append(sent, [type |-> "error",
                                    message |-> "Invalid JSON message"])
           /\ socket_pc' = "receiving"
           /\ UNCHANGED <<controlVars, managerVars>>]_vars

\* after a pause, a text that was not valid JSON was answered by the error
\* message, the manager is still paused, and the next message, a ping, was
\* answered
C29_Witness ==
    /\ prog = "socket"
    /\ is_paused
    /\ last_event = "ping"
    /\ sent = << [type |-> "paused", message |-> ""],
                 [type |-> "error", message |-> "Invalid JSON message"],
                 [type |-> "pong", message |-> ""] >>

\* ---------------------------------------------------------------- dialer call
\* C27: the conversation history of a call alternates user and assistant
\* entries, beginning with a user entry: no user entry is appended before the
\* reply to the one before it, whatever the interleaving of the response
\* tasks.
C27_HistoryAlternates ==
    prog = "dialer" =>
        \A i \in DOMAIN conversation_history :
            conversation_history[i].role =
                IF i % 2 = 1 THEN "user" ELSE "assistant"

\* ---------------------------------------------------------------- dialer speak
\* the PCM chunks speak() converted and sent, in the order of sending
SentPcm == [k \in DOMAIN media_sent |-> media_sent[k].pcm]

\* C28: when speak() has ended on a call that is still connected, the PCM
\* chunks it converted and sent, concatenated in the order of sending, are
\* the chunks of the TTS stream concatenated; every chunk sent but the last
\* has exactly ChunkBytes bytes, and the last has from 1 to ChunkBytes (a
\* shorter one is the rest sent after the stream ended).  While speak() runs
\* on a connected call, what was sent and what is still buffered make up the
\* stream so far.
C28_SentChunksAreTheStream ==
    (prog = "dialer" /\ is_connected) =>
        /\ speak_pc = "done" => BCatAll(SentPcm) = BCatAll(tts_chunks)
        /\ speak_pc \in {"stream", "sleep"} =>
               BCat(BCatAll(SentPcm), pcm_buffer) = BCatAll(tts_chunks)
        /\ speak_pc = "send" =>
               BCat(BCatAll(SentPcm), BDrop(pcm_buffer, ChunkBytes))
                   = BCatAll(tts_chunks)
        /\ \A k \in DOMAIN media_sent :
               /\ BLen(SentPcm[k]) \in 1..ChunkBytes
               /\ BLen(SentPcm[k]) < ChunkBytes =>
                      k = Len(media_sent) /\ speak_pc = "done"

\* speak() ended on a connected call after sending full chunks, one of them
\* made of bytes of two chunks of the stream, and a shorter last one
C28_Witness ==
    /\ prog = "dialer"
    /\ is_connected
    /\ speak_pc = "done"
    /\ Len(media_sent) >= 3
    /\ BLen(SentPcm[Len(media_sent)]) < ChunkBytes
    /\ \E k \in DOMAIN media_sent : Len(SentPcm[k]) = 2

\* ---------------------------------------------------------------- speakers file
\* C30: no entry save_speakers writes has a label of the reserved form
\* S<digits>, and a load_known_speakers that follows the save returns the
\* written entries, each with its label and identifiers, in the written
\* order and dropping none.
C30_LoadReturnsWhatSaveWrote ==
    prog = "speakers" =>
        /\ \A k \in DOMAIN written : ~RESERVED_LABEL_match(written[k].label)
        /\ (last_event = "load" /\ written # <<>>) => known_speakers = written

\* a result of two speakers, the first with a reserved label and the second
\* with a reserved label before a newline, was saved and loaded again
C30_Witness ==
    /\ prog = "speakers"
    /\ last_event = "load"
    /\ Len(written) = 2
    /\ raw_speakers[1].label = <<"S", "1">>
    /\ raw_speakers[2].label = <<"S", "1", "\n">>
    /\ known_speakers[1].label = <<"S", "p", "e", "a", "k", "e", "r", "_", "1">>
    /\ Len(known_speakers[2].speaker_identifiers) = 2

====
